---- MODULE Spec2Model ----
(***************************************************************************)
(* Session state machine, progression controller, upgrade checkpoint and   *)
(* player health model of Infernal (src/Infernal.py).                      *)
(*                                                                         *)
(* Numbers that the program keeps as floats with one decimal (the enemy    *)
(* tier stats and enemy health) are kept in tenths: 15 stands for 1.5.     *)
(* Within the levels modelled here the binary rounding error of the float  *)
(* sums (below 1e-14) changes no int() truncation the code performs.       *)
(*                                                                         *)
(* Geometry that depends on image sizes and on the random walk of the      *)
(* enemies (which sprites overlap in a frame) is an input of the frame.    *)
(***************************************************************************)
EXTENDS Integers, Sequences, FiniteSets, TLC

VARIABLES
    pc,             \* session state: where the control of Game.start/run/upgrade is
    queue,          \* pygame event queue while the program is not polling
    reached_level,  \* Room.reached_level
    tier,           \* Enemy.max_health, Enemy.speed, Enemy.damage (tenths)
    bullet_speed,   \* Bullet.CURRENT_BULLET_SPEED
    player,         \* Game.player
    bullets,        \* Game.bullets
    enemies,        \* Game.room.enemies
    can_upgrade,    \* Game.can_upgrade
    upgrade_rects,  \* local upgrade_rects of Game.upgrade
    new_rooms,      \* number of Room objects constructed by the last step
    activations,    \* number of Upgrade.activate calls made by the last step
    room_cleared,   \* the last step was a frame that found the enemy collection empty
    restarted,      \* the last step left the death screen for a new playthrough
    room            \* Game.room: its walls, and where Room.create_room stands

vars == <<pc, queue, reached_level, tier, bullet_speed, player, bullets,
          enemies, can_upgrade, upgrade_rects, new_rooms, activations,
          room_cleared, restarted, room>>

-----------------------------------------------------------------------------
(* Program constants *)

GAME_WIDTH == 800
GAME_HEIGHT == 700
GAME_FPS == 60
MOUSE_LEFT_BUTTON == 1

PLAYER_MAX_HEALTH == 21
PLAYER_MAX_DAMAGE == 10
MIN_SHOOT_COOLDOWN == 1
PLAYER_MAX_SPEED == 15
INITIAL_HEALTH == 3
INITIAL_SHOOT_COOLDOWN == 20
IMMUNITY_DURATION_SECONDS == 1

MAX_BULLET_SPEED == 30
DEFAULT_BULLET_SPEED == 7
INITIAL_LIFETIME == 60

ENEMY_MAX_SPEED == 200
ENEMY_MAX_DAMAGE == 50
ENEMY_POINTS == 5
BOSS_LEVEL_INTERVAL == 4
DEFAULT_DAMAGE == 10

BOSS_MAX_HEALTH == 300
BOSS_DAMAGE == 50
BOSS_HEALTH_SCALING == 30
BOSS_MAX_SPEED == 200
BOSS_SPEED == 10

ROOM_POINTS == 10
BOSS_ROOM_ENEMY_COUNT == 1
DEFAULT_ROOM_LEVEL == 0
NUMBER_OF_ENEMIES_BASE == 1

UI_SPACING == 20
UPGRADE_WIDTH == 240
UPGRADE_HEIGHT == 550
UPGRADE_PANEL_Y == 85

INITIAL_ENEMY_SPEED == 15
INITIAL_ENEMY_HEALTH == 30
ENEMY_HEALTH_INCREASE == 4
ENEMY_SPEED_SMALL_INC == 1
ENEMY_SPEED_LARGE_INC == 4
ENEMY_DAMAGE_INCREASE == 2
LEVEL_INTERVAL_FOR_ENEMY_STATS == 2
INITIAL_PLAYER_SPEED == 3
difficulty == 0

TILE_SIZE == 40
DEFAULT_SAVE_ZONE_RANGE == 70
INNER_WALL_MARGIN == 2
INNER_WALL_MULTIPLIER == 3
ENEMY_SPAWN_MARGIN == 2
NUMBER_OF_WALLS == 3
WALL_VARIATION_RANGE == 3
ENEMY_SPAWN_SAFE_MULTIPLIER == 2
ENEMY_MOVEMENT_CHANGE_MIN == 30
ENEMY_MOVEMENT_CHANGE_MAX == 90

-----------------------------------------------------------------------------
(* Bounds of the model *)

MaxBatch == 2        \* events returned by one pygame.event.get()
MaxQueue == 1        \* events that queue up while the offers are being drawn
MaxEnemies == 1      \* enemy counts drawn above the lower limit are cut here
MaxFlight == 1       \* ticks a bullet may fly on without striking anything
MaxWalk == 3         \* pixels the player walks away from the playfield center
InputWindow == 0     \* frames into a running countdown in which new inputs still arrive
MaxArg == 22         \* largest argument of a direct call of a Player method
HealthFloor == 6     \* direct take_damage calls stop once health is below -HealthFloor
MaxTierLevel == 140  \* room clears in the long run of the enemy tier
MaxRejects == 1      \* rejected candidates that a phase of create_room is seen to count
EnemyWidth == 30     \* size of the scaled image graphics/enemies/bat_1.png
EnemyHeight == 20
BossWidth == 100     \* size of the scaled image graphics/enemies/phoenix1.png
BossHeight == 80
PlayerWidth == 30    \* size of the scaled player image
PlayerHeight == 30
MaxStray == 12       \* pixels the player moves away from MoveSite
MaxShots == 2        \* bullets in flight at once in the combat calls
MaxRoomLevel == 8    \* rooms cleared in the walk through the levels
MaxOfferLevel == 12  \* highest level at which offers are generated

\* The rooms the model plays (the first room and the boss rooms of levels
\* 3 and 7) and, of these, the rooms it lets the player clear
PlayedLevels == {0, 3, 7}
ClearedLevels == {0}

-----------------------------------------------------------------------------
(* Small helpers *)

Min(a, b) == IF a < b THEN a ELSE b
Max(a, b) == IF a > b THEN a ELSE b

\* int() of a non-negative number kept in tenths
IntOfTenths(t) == t \div 10

\* int(reached_level / k) for the non-negative levels of the program
IntDiv(a, k) == a \div k

\* The playfield center (game.WIDTH // 2, game.HEIGHT // 2)
Center == <<GAME_WIDTH \div 2, GAME_HEIGHT \div 2>>

-----------------------------------------------------------------------------
(* Player *)

\* Player.__init__ followed by set_points(0) and set_speed(3) of setup_game
NewPlayer ==
    [damage |-> 1,
     earned_points |-> 0,
     center |-> Center,
     shoot_cooldown |-> 0,
     is_immune |-> FALSE,
     immunity_timer |-> 0,
     speed |-> Min(PLAYER_MAX_SPEED, INITIAL_PLAYER_SPEED),
     max_health |-> INITIAL_HEALTH,
     current_health |-> INITIAL_HEALTH,
     shoot_cooldown_set |-> INITIAL_SHOOT_COOLDOWN,
     immunity_duration |-> IMMUNITY_DURATION_SECONDS * GAME_FPS]

\* Enemy.get_damage(): the class attribute Enemy.damage
EnemyGetDamage(t) == t.damage

\* BossEnemy.get_damage(): the class attribute BossEnemy.damage, which no
\* code assigns (BossEnemy.__init__ sets the instance attribute self.damage)
BossGetDamage == BOSS_DAMAGE

\* BossEnemy.get_speed(), in tenths: int(1 / 3 * Enemy.get_speed()) is the
\* tier speed divided by three and cut to a whole number
BossGetSpeed(t) == Min(BOSS_MAX_SPEED, BOSS_SPEED + 10 * (t.speed \div 30))

\* the boss-room test of take_damage and create_room
IsBossLevel(level) == ((level + 1) % BOSS_LEVEL_INTERVAL) = 0

\* take_damage subtracting the damage BossEnemy.__init__ derives from the level
DamageTakenScaled(level, t) ==
    IF IsBossLevel(level) THEN Min(10, (5 * (level + 1)) \div 4)
    ELSE IntOfTenths(t.damage)

\* the amount take_damage subtracts
DamageTaken(level, t) ==
    IF IsBossLevel(level) THEN IntOfTenths(BossGetDamage)
    ELSE IntOfTenths(EnemyGetDamage(t))

\* take_damage without the immunity test
TakeDamageAlways(p, level, t) ==
    [p EXCEPT !.current_health = @ - DamageTaken(level, t),
              !.is_immune = TRUE,
              !.immunity_timer = p.immunity_duration]

\* Player.take_damage
TakeDamage(p, level, t) ==
    IF ~p.is_immune
    THEN [p EXCEPT !.current_health = @ - DamageTaken(level, t),
                   !.is_immune = TRUE,
                   !.immunity_timer = p.immunity_duration]
    ELSE p

\* Player.set_current_health
SetCurrentHealth(p, number) ==
    [p EXCEPT !.current_health = Min(p.max_health, number)]

\* Player.heal
Heal(p, number) ==
    [p EXCEPT !.current_health = Min(p.max_health, p.current_health + number)]

\* set_max_health without its second statement (current health not adjusted)
SetMaxHealthOnly(p, number) ==
    [p EXCEPT !.max_health = Min(PLAYER_MAX_HEALTH, number)]

\* Player.set_max_health
SetMaxHealth(p, number) ==
    LET m == Min(PLAYER_MAX_HEALTH, number)
    IN [p EXCEPT !.max_health = m, !.current_health = Min(p.current_health, m)]

\* Player.increase_health
IncreaseHealth(p, number) ==
    [p EXCEPT !.max_health = Min(PLAYER_MAX_HEALTH, p.max_health + number)]

\* increase_damage without the cap
IncreaseDamageUncapped(p, number) == [p EXCEPT !.damage = p.damage + number]

\* Player.increase_damage
IncreaseDamage(p, number) ==
    [p EXCEPT !.damage = Min(PLAYER_MAX_DAMAGE, p.damage + number)]

\* Player.decrease_shoot_cooldown
DecreaseShootCooldown(p, number) ==
    [p EXCEPT !.shoot_cooldown_set = Max(MIN_SHOOT_COOLDOWN, p.shoot_cooldown_set - number)]

\* Player.increase_speed
IncreaseSpeed(p, number) ==
    [p EXCEPT !.speed = Min(PLAYER_MAX_SPEED, p.speed + number)]

\* add_points assigning instead of adding
AddPointsAssigned(p, number) == [p EXCEPT !.earned_points = number]

\* Player.add_points
AddPoints(p, number) == [p EXCEPT !.earned_points = @ + number]

\* resetLocation leaving the player where it stands
ResetLocationKept(p) == p

\* Player.resetLocation
ResetLocation(p) == [p EXCEPT !.center = Center]

\* Bullet.increase_bullet_speed
IncreaseBulletSpeed(bs, number) == Min(MAX_BULLET_SPEED, bs + number)

\* int(speed * DIAGONAL_MOVEMENT_FACTOR): the largest k with 2 k^2 <= speed^2
DiagonalStep(speed) ==
    CHOOSE k \in 0..speed : 2 * k * k <= speed * speed /\ 2 * (k + 1) * (k + 1) > speed * speed

\* The keys Player.update reads
Keys == {"LEFT", "RIGHT", "UP", "DOWN"}

\* dx (resp. dy) of Player.update before the diagonal scaling: the later
\* test of the pair overwrites the earlier one
RawDx(keys, speed) ==
    IF "RIGHT" \in keys THEN speed ELSE IF "LEFT" \in keys THEN 0 - speed ELSE 0
RawDy(keys, speed) ==
    IF "DOWN" \in keys THEN speed ELSE IF "UP" \in keys THEN 0 - speed ELSE 0

\* rect.x += d with a float d: the Rect keeps int(x + d); for the positive
\* coordinates of the playfield that is x + d rounded down.  diag says that
\* d was scaled by 1/sqrt(2).
MovedCoord(x, d, diag) ==
    IF ~diag THEN x + d
    ELSE IF d > 0 THEN x + DiagonalStep(d)
    ELSE IF d < 0 THEN x - DiagonalStep(0 - d) - 1
    ELSE x

\* The movement of Player.update inside the wall-free safe zone around the
\* playfield center, where spritecollide(self, walls) is empty and the
\* clamp to the playfield changes nothing
MovePlayer(p, keys) ==
    LET dx == RawDx(keys, p.speed)
        dy == RawDy(keys, p.speed)
        diag == dx # 0 /\ dy # 0
    IN [p EXCEPT !.center = <<MovedCoord(p.center[1], dx, diag),
                              MovedCoord(p.center[2], dy, diag)>>]

\* An immunity that ends with its first tick
ImmunityTickOnce(p) ==
    IF p.is_immune
    THEN [p EXCEPT !.immunity_timer = @ - 1, !.is_immune = FALSE]
    ELSE p

\* The immunity countdown at the head of Player.update
ImmunityTick(p) ==
    IF p.is_immune
    THEN IF p.immunity_timer - 1 <= 0
         THEN [p EXCEPT !.immunity_timer = @ - 1, !.is_immune = FALSE]
         ELSE [p EXCEPT !.immunity_timer = @ - 1]
    ELSE p

\* A countdown that is over after one tick
CooldownCleared(p) == [p EXCEPT !.shoot_cooldown = 0]

\* The cooldown countdown at the tail of Player.update
CooldownTick(p) ==
    IF p.shoot_cooldown > 0 THEN [p EXCEPT !.shoot_cooldown = @ - 1] ELSE p

\* Player.update
PlayerUpdate(p, keys) == CooldownTick(MovePlayer(ImmunityTick(p), keys))

-----------------------------------------------------------------------------
(* Input events *)

Quit == [type |-> "QUIT", key |-> "NONE", button |-> 0, pos |-> <<0, 0>>]
KeyDown(k) == [type |-> "KEYDOWN", key |-> k, button |-> 0, pos |-> <<0, 0>>]
MouseDown(b, at) == [type |-> "MOUSEBUTTONDOWN", key |-> "NONE", button |-> b, pos |-> at]

\* Sample pointer positions: inside each offer rectangle (the second is the
\* playfield center) and outside all of them
PointerSamples == {<<140, 350>>, Center, <<660, 350>>, <<10, 10>>}

\* Events each polling loop is fed with
StartEvents == {Quit, KeyDown("SPACE"), KeyDown("OTHER"), MouseDown(1, <<10, 10>>)}
RunEvents == {Quit, MouseDown(MOUSE_LEFT_BUTTON, <<10, 10>>), MouseDown(3, <<10, 10>>)}
UpgradeEvents == {Quit} \cup {MouseDown(1, at) : at \in PointerSamples}

\* The lists one pygame.event.get() may return, over the events ev
Batches(ev) == UNION {[1..n -> ev] : n \in 0..MaxBatch}

\* Sets of held keys the frames are fed with
KeySets == {{}, {"RIGHT"}}

-----------------------------------------------------------------------------
(* Shooting, bullets and enemies *)

\* Bullet.__init__: position and velocity are left to the frame's inputs
NewBullet == [lifetime |-> INITIAL_LIFETIME]

\* The divisor dist of Player.shoot, squared: hypot(dx, dy) is 0 exactly
\* when this is 0
AimDist2(p, mouse) ==
    (mouse[1] - p.center[1]) * (mouse[1] - p.center[1])
    + (mouse[2] - p.center[2]) * (mouse[2] - p.center[2])

\* Player.shoot reaches the division dx / dist, dy / dist
ShootDivides(p, mouse) == p.shoot_cooldown = 0 /\ AimDist2(p, mouse) # 0

\* shoot without the test of dist
ShootUnaimed(p, bs, mouse) ==
    IF p.shoot_cooldown = 0
    THEN [player |-> [p EXCEPT !.shoot_cooldown = p.shoot_cooldown_set],
          bullets |-> Append(bs, NewBullet)]
    ELSE [player |-> p, bullets |-> bs]

\* Player.shoot with pygame.mouse.get_pos() = mouse
Shoot(p, bs, mouse) ==
    IF p.shoot_cooldown = 0
    THEN IF mouse = p.center
         THEN [player |-> p, bullets |-> bs]
         ELSE [player |-> [p EXCEPT !.shoot_cooldown = p.shoot_cooldown_set],
               bullets |-> Append(bs, NewBullet)]
    ELSE [player |-> p, bullets |-> bs]

\* The event loop at the head of Game.run's frame
RECURSIVE RunEventLoop(_, _, _, _)
RunEventLoop(evs, p, bs, mouse) ==
    IF evs = <<>> THEN [quit |-> FALSE, player |-> p, bullets |-> bs]
    ELSE LET e == Head(evs) IN
         IF e.type = "QUIT" THEN [quit |-> TRUE, player |-> p, bullets |-> bs]
         ELSE IF e.type = "MOUSEBUTTONDOWN" /\ e.button = MOUSE_LEFT_BUTTON
              THEN LET s == Shoot(p, bs, mouse)
                   IN RunEventLoop(Tail(evs), s.player, s.bullets, mouse)
              ELSE RunEventLoop(Tail(evs), p, bs, mouse)

\* int() of a number kept in tenths: truncation toward zero
IntTrunc(t) == IF t >= 0 THEN t \div 10 ELSE 0 - ((0 - t) \div 10)

\* The members of a set of enemy indices in the group's order
RECURSIVE Ascending(_)
Ascending(S) ==
    IF S = {} THEN <<>>
    ELSE LET m == CHOOSE x \in S : \A y \in S : x <= y
         IN  <<m>> \o Ascending(S \ {m})

\* spritecollide(self, enemies, False): the lists it may return for a
\* group of n enemies
HitLists(n) == {Ascending(S) : S \in SUBSET (1..n)}

\* What the geometry decides for one bullet in one tick: whether it overlaps
\* a wall, the enemies it overlaps, and whether it has left the playfield
Fates(n) == [wall : BOOLEAN, hits : HitLists(n), off : BOOLEAN]

\* A bullet flies on (no wall, no enemy, inside the playfield)
FliesOn(f) == ~f.wall /\ f.hits = <<>> /\ ~f.off

\* The fates the frames are fed with: a bullet strikes something within
\* MaxFlight ticks of flying on, and leaves the playfield only untouched
FateOk(b, f) ==
    /\ FliesOn(f) => INITIAL_LIFETIME - b.lifetime < MaxFlight
    /\ f.off => ~f.wall /\ f.hits = <<>>

\* A loop over hits that strikes every enemy of the list
RECURSIVE BulletStrikeAll(_, _, _)
BulletStrikeAll(hits, es, dmg) ==
    IF hits = <<>> THEN [enemies |-> es, struck |-> FALSE]
    ELSE [enemies |-> BulletStrikeAll(Tail(hits),
                                      [es EXCEPT ![Head(hits)].health = @ - 10 * dmg],
                                      dmg).enemies,
          struck |-> TRUE]

\* `for enemy in hits: ... break` of Bullet.update: the first enemy of the
\* list loses player.get_damage() and the bullet is killed
BulletStrike(hits, es, dmg) ==
    IF hits = <<>> THEN [enemies |-> es, struck |-> FALSE]
    ELSE [enemies |-> [es EXCEPT ![Head(hits)].health = @ - 10 * dmg],
          struck |-> TRUE]

\* Bullet.update for one bullet: the enemies after it, and whether the
\* bullet is still in the collection.  The wall test kills the bullet and
\* the enemy loop runs all the same.
BulletUpdate(b, f, es, dmg) ==
    LET moved == [b EXCEPT !.lifetime = @ - 1]
        st == BulletStrike(f.hits, es, dmg)
        killed == f.wall \/ st.struck \/ f.off \/ moved.lifetime <= 0
    IN [bullet |-> moved, alive |-> ~killed, enemies |-> st.enemies]

\* Game.bullets.update: every bullet in the group's order
RECURSIVE BulletsUpdate(_, _, _, _)
BulletsUpdate(bs, fs, es, dmg) ==
    IF bs = <<>> THEN [bullets |-> <<>>, enemies |-> es]
    ELSE LET one == BulletUpdate(Head(bs), Head(fs), es, dmg)
             rest == BulletsUpdate(Tail(bs), Tail(fs), one.enemies, dmg)
         IN [bullets |-> IF one.alive THEN <<one.bullet>> \o rest.bullets ELSE rest.bullets,
             enemies |-> rest.enemies]

\* The death test at the tail of Enemy.update
EnemyIsDead(e) == IntTrunc(e.health) <= 0

\* Game.room.enemies.update: movement is left to the frame's inputs; every
\* dead enemy awards Enemy.POINTS (also a boss: the inherited update names
\* Enemy.POINTS) and leaves the group
EnemiesUpdate(es, p) ==
    LET dead == {i \in 1..Len(es) : EnemyIsDead(es[i])}
    IN [enemies |-> SelectSeq(es, LAMBDA e : ~EnemyIsDead(e)),
        player |-> AddPoints(p, ENEMY_POINTS * Cardinality(dead))]

-----------------------------------------------------------------------------
(* Room and progression *)

\* The room of a session that walks no further than MaxWalk from the
\* playfield center: create_room keeps every inner wall out of the central
\* safe zone, so no wall is in the player's reach and the walls are left out
NoRoom == [phase |-> "idle", walls |-> <<>>]

\* Enemy.__init__ / BossEnemy.__init__: starting health
NewEnemy(t) == [boss |-> FALSE, health |-> t.max_health]
NewBossUnscaled(level) == [boss |-> TRUE, health |-> BOSS_MAX_HEALTH]
NewBoss(level) == [boss |-> TRUE, health |-> BOSS_MAX_HEALTH + BOSS_HEALTH_SCALING * level]

\* The enemy counts random.randint may return in create_room
EnemyCounts(level) ==
    (NUMBER_OF_ENEMIES_BASE + IntDiv(level, 2)) .. (NUMBER_OF_ENEMIES_BASE + 2 + IntDiv(level, 2))

\* A create_room that never spawns the boss
NewEnemiesNormal(level, t) ==
    {[i \in 1..(NUMBER_OF_ENEMIES_BASE + IntDiv(level, 2)) |-> NewEnemy(t)]}

\* Room.create_room: the enemy collections it may build (placement is
\* left out here; every count at or below MaxEnemies, or else the lowest)
NewEnemies(level, t) ==
    IF IsBossLevel(level)
    THEN {[i \in 1..BOSS_ROOM_ENEMY_COUNT |-> NewBoss(level)]}
    ELSE {[i \in 1..n |-> NewEnemy(t)] :
            n \in {m \in EnemyCounts(level) :
                     m <= Max(MaxEnemies, NUMBER_OF_ENEMIES_BASE + IntDiv(level, 2))}}

\* Game.setup_game: the tier it sets
InitialTier ==
    [max_health |-> INITIAL_ENEMY_HEALTH,
     speed |-> Min(ENEMY_MAX_SPEED, INITIAL_ENEMY_SPEED),
     damage |-> Min(ENEMY_MAX_DAMAGE, DEFAULT_DAMAGE)]

\* The stat bump applied on every clear
TierBumpAlways(t, level) ==
    [max_health |-> t.max_health + ENEMY_HEALTH_INCREASE,
     speed |-> IF t.speed < 50
               THEN Min(ENEMY_MAX_SPEED, t.speed + ENEMY_SPEED_LARGE_INC)
               ELSE Min(ENEMY_MAX_SPEED, t.speed + ENEMY_SPEED_SMALL_INC),
     damage |-> Min(ENEMY_MAX_DAMAGE, t.damage + ENEMY_DAMAGE_INCREASE)]

\* The stat bump at the head of Game.new_level
TierBump(t, level) ==
    IF (level % LEVEL_INTERVAL_FOR_ENEMY_STATS) # 0
    THEN [max_health |-> t.max_health + ENEMY_HEALTH_INCREASE,
          speed |-> IF t.speed < 50
                    THEN Min(ENEMY_MAX_SPEED, t.speed + ENEMY_SPEED_LARGE_INC)
                    ELSE Min(ENEMY_MAX_SPEED, t.speed + ENEMY_SPEED_SMALL_INC),
          damage |-> Min(ENEMY_MAX_DAMAGE, t.damage + ENEMY_DAMAGE_INCREASE)]
    ELSE t

\* A frame end that never leaves the loop
AfterFrameAlive(p) == "playing"

\* The end of the frame in Game.run: the loop ends when health is below 1
IsDead(p) == p.current_health < 1
AfterFrame(p) == IF IsDead(p) THEN "dead" ELSE "playing"

\* The upgrade test at the tail of Game.new_level
UpgradeDue(level) == ((level + 1) % (difficulty + 1)) = 0

-----------------------------------------------------------------------------
(* Upgrade offers *)

\* The list functions of Game.get_upgrade_rects, in its order
Functions ==
    <<"increase_damage", "increase_health", "heal",
      "decrease_shoot_cooldown", "increase_speed", "increase_bullet_speed">>

\* lower and upper of each case of get_upgrade_rects
Lower(fn, level) ==
    IF fn = "heal" THEN Max(2, IntDiv(level, 2)) ELSE Max(1, IntDiv(level, 2))
Upper(fn, level) ==
    CASE fn = "increase_damage" -> Max(2, IntDiv(level, 2))
      [] fn = "increase_health" -> Max(2, IntDiv(level, 2))
      [] fn = "heal" -> Max(4, level)
      [] fn = "decrease_shoot_cooldown" -> Lower(fn, level)
      [] fn = "increase_speed" -> Max(2, level)
      [] fn = "increase_bullet_speed" -> Max(2, IntDiv(level, 3))

\* A balanced_randint that hands its arguments to random.randint as they are
BalancedRandintRaw(lower, upper) == lower .. upper

\* Game.balanced_randint: the values it may return
BalancedRandint(lower, upper) ==
    lower .. (IF lower >= upper THEN lower + 1 ELSE upper)

\* Upgrade.__init__: the rectangle of offer number i (0, 1, 2)
OfferRect(i) ==
    [left |-> UI_SPACING + i * (UPGRADE_WIDTH + UI_SPACING),
     top |-> UPGRADE_PANEL_Y,
     width |-> UPGRADE_WIDTH,
     height |-> UPGRADE_HEIGHT]

\* A collidepoint that every pointer position satisfies
CollideAnywhere(r, at) == TRUE

\* pygame.Rect.collidepoint
CollidePoint(r, at) ==
    /\ at[1] >= r.left /\ at[1] < r.left + r.width
    /\ at[2] >= r.top /\ at[2] < r.top + r.height

\* a remove that leaves the list as it is
RemoveNothing(functions, chosen) == functions

\* functions.remove(chosen_function)
Remove(functions, chosen) == SelectSeq(functions, LAMBDA f : f # chosen)

\* for i in range(n): random.choice(functions); functions.remove(...): the
\* lists of chosen functions the loop may produce
RECURSIVE Draws(_, _)
Draws(functions, n) ==
    IF n = 0 THEN {<<>>}
    ELSE UNION {{<<functions[k]>> \o rest : rest \in Draws(Remove(functions, functions[k]), n - 1)} :
                  k \in 1..Len(functions)}

\* Every list of three functions get_upgrade_rects may choose
AllDraws == Draws(Functions, 3)

\* The orders in which the three random.choice draws may pick the functions:
\* the session draws three neighbours of the list, starting anywhere
DrawnTriples ==
    {tr \in AllDraws :
        \E k \in 1..6 : \A i \in 1..3 : tr[i] = Functions[((k + i - 2) % 6) + 1]}

\* Game.get_upgrade_rects: the offer lists it may return for the drawn
\* functions
GetUpgradeRects(level) ==
    {[i \in 1..3 |-> [function_name |-> tr[i], function_number |-> num[i]]] :
        <<tr, num>> \in {<<t, n>> \in DrawnTriples \X [1..3 -> 1..Max(5, level + 1)] :
                          \A i \in 1..3 :
                             n[i] \in BalancedRandint(Lower(t[i], level), Upper(t[i], level))}}

\* Upgrade.activate: getattr(player, function_name)(function_number)
Activate(u, p, bs) ==
    CASE u.function_name = "increase_damage" ->
            [player |-> IncreaseDamage(p, u.function_number), bullet_speed |-> bs]
      [] u.function_name = "increase_health" ->
            [player |-> IncreaseHealth(p, u.function_number), bullet_speed |-> bs]
      [] u.function_name = "heal" ->
            [player |-> Heal(p, u.function_number), bullet_speed |-> bs]
      [] u.function_name = "decrease_shoot_cooldown" ->
            [player |-> DecreaseShootCooldown(p, u.function_number), bullet_speed |-> bs]
      [] u.function_name = "increase_speed" ->
            [player |-> IncreaseSpeed(p, u.function_number), bullet_speed |-> bs]
      [] u.function_name = "increase_bullet_speed" ->
            [player |-> p, bullet_speed |-> IncreaseBulletSpeed(bs, u.function_number)]

\* for upgrade_rect in upgrade_rects: ... of Game.upgrade, for one click
RECURSIVE ClickOffers(_, _, _, _)
ClickOffers(i, rects, at, st) ==
    IF i > Len(rects) THEN st
    ELSE IF CollidePoint(OfferRect(i - 1), at)
         THEN LET a == Activate(rects[i], st.player, st.bullet_speed)
              IN ClickOffers(i + 1, rects, at,
                             [st EXCEPT !.player = a.player,
                                        !.bullet_speed = a.bullet_speed,
                                        !.can_upgrade = FALSE,
                                        !.activations = @ + 1])
         ELSE ClickOffers(i + 1, rects, at, st)

\* for event in pygame.event.get(): ... of Game.upgrade
RECURSIVE UpgradeEventLoop(_, _, _)
UpgradeEventLoop(evs, rects, st) ==
    IF evs = <<>> THEN st
    ELSE LET e == Head(evs) IN
         IF e.type = "QUIT" THEN [st EXCEPT !.quit = TRUE]
         ELSE IF e.type = "MOUSEBUTTONDOWN"
              THEN UpgradeEventLoop(Tail(evs), rects, ClickOffers(1, rects, e.pos, st))
              ELSE UpgradeEventLoop(Tail(evs), rects, st)

\* A start loop that takes any key for SPACE
RECURSIVE StartEventLoopAnyKey(_)
StartEventLoopAnyKey(evs) ==
    IF evs = <<>> THEN "wait"
    ELSE LET e == Head(evs) IN
         IF e.type = "QUIT" THEN "quit"
         ELSE IF e.type = "KEYDOWN" THEN "run"
              ELSE StartEventLoopAnyKey(Tail(evs))

\* for event in pygame.event.get(): ... of Game.start: "quit", "run" (SPACE
\* came first; run() never returns, the rest of the list is never read) or
\* "wait"
RECURSIVE StartEventLoop(_)
StartEventLoop(evs) ==
    IF evs = <<>> THEN "wait"
    ELSE LET e == Head(evs) IN
         IF e.type = "QUIT" THEN "quit"
         ELSE IF e.type = "KEYDOWN" /\ e.key = "SPACE" THEN "run"
              ELSE StartEventLoop(Tail(evs))

-----------------------------------------------------------------------------
(* The session *)

\* Game.setup_game: the states it may leave (the room's enemy count is drawn)
SetupGame ==
    {[bullet_speed |-> Min(MAX_BULLET_SPEED, DEFAULT_BULLET_SPEED),
      tier |-> InitialTier,
      reached_level |-> DEFAULT_ROOM_LEVEL,
      player |-> NewPlayer,
      bullets |-> <<>>,
      enemies |-> es] : es \in NewEnemies(DEFAULT_ROOM_LEVEL, InitialTier)}

\* Game.__init__, which ends with setup_game(); start(True) then shows the
\* welcome screen
Init ==
    /\ pc = "welcome"
    /\ queue = <<>>
    /\ can_upgrade = FALSE
    /\ upgrade_rects = <<>>
    /\ new_rooms = 1
    /\ activations = 0
    /\ room_cleared = FALSE
    /\ restarted = FALSE
    /\ room = NoRoom
    /\ \E s \in SetupGame :
          /\ bullet_speed = s.bullet_speed
          /\ tier = s.tier
          /\ reached_level = s.reached_level
          /\ player = s.player
          /\ bullets = s.bullets
          /\ enemies = s.enemies

\* Game.end_game: the process is gone
EndGame ==
    /\ pc' = "terminated"
    /\ new_rooms' = 0
    /\ activations' = 0
    /\ room_cleared' = FALSE
    /\ restarted' = FALSE
    /\ UNCHANGED <<queue, reached_level, tier, bullet_speed, player, bullets,
                   enemies, can_upgrade, upgrade_rects>>

\* A start loop whose SPACE branch calls run() without setup_game()
StartWithoutSetup(evs) ==
    /\ pc \in {"welcome", "dead"}
    /\ LET r == StartEventLoop(evs) IN
       CASE r = "quit" -> EndGame
         [] r = "run" ->
               /\ pc' = "playing"
               /\ new_rooms' = 0
               /\ activations' = 0
               /\ room_cleared' = FALSE
               /\ restarted' = (pc = "dead")
               /\ UNCHANGED <<queue, reached_level, tier, bullet_speed, player,
                              bullets, enemies, can_upgrade, upgrade_rects>>
         [] r = "wait" ->
               /\ new_rooms' = 0
               /\ activations' = 0
               /\ room_cleared' = FALSE
               /\ restarted' = FALSE
               /\ UNCHANGED <<pc, queue, reached_level, tier, bullet_speed, player,
                              bullets, enemies, can_upgrade, upgrade_rects>>

\* One iteration of the loop of Game.start on the welcome or death screen
Start(evs) ==
    /\ pc \in {"welcome", "dead"}
    /\ LET r == StartEventLoop(evs) IN
       CASE r = "quit" -> EndGame
         [] r = "run" ->
               /\ \E s \in SetupGame :
                     /\ bullet_speed' = s.bullet_speed
                     /\ tier' = s.tier
                     /\ reached_level' = s.reached_level
                     /\ player' = s.player
                     /\ bullets' = s.bullets
                     /\ enemies' = s.enemies
               /\ pc' = "playing"
               /\ new_rooms' = 1
               /\ activations' = 0
               /\ room_cleared' = FALSE
               /\ restarted' = (pc = "dead")
               /\ UNCHANGED <<queue, can_upgrade, upgrade_rects>>
         [] r = "wait" ->
               /\ new_rooms' = 0
               /\ activations' = 0
               /\ room_cleared' = FALSE
               /\ restarted' = FALSE
               /\ UNCHANGED <<pc, queue, reached_level, tier, bullet_speed, player,
                              bullets, enemies, can_upgrade, upgrade_rects>>

\* Game.new_level up to the call of upgrade(), entered with the player p
NewLevel(p) ==
    LET lvl == reached_level + 1
        t2 == TierBump(tier, reached_level)
        p2 == [ResetLocation(AddPoints(p, ROOM_POINTS)) EXCEPT !.immunity_timer = 0]
    IN /\ tier' = t2
       /\ reached_level' = lvl
       /\ enemies' \in NewEnemies(lvl, t2)
       /\ bullets' = <<>>
       /\ player' = p2
       /\ new_rooms' = 1
       /\ activations' = 0
       /\ room_cleared' = TRUE
       /\ restarted' = FALSE
       /\ IF UpgradeDue(lvl)
          THEN /\ can_upgrade' = TRUE
               /\ upgrade_rects' \in GetUpgradeRects(lvl)
               /\ pc' = "upgrade_draw"
          ELSE /\ pc' = AfterFrame(p2)
               /\ UNCHANGED <<can_upgrade, upgrade_rects>>
       /\ UNCHANGED <<queue, bullet_speed>>

\* spritecollide(self.player, self.room.enemies, False) after the updates:
\* touch says that the player's box lies on the box of an enemy of the room
\* as it stood when the frame began; an enemy killed in the frame has left
\* the group, and an empty group collides with nothing
PlayerTouchedDead(touch, es) == touch

PlayerTouched(touch, es) == touch /\ es # <<>>

\* The fates of the bullets bs among the enemies es
FateSeqs(bs, es) ==
    {fs \in [1..Len(bs) -> Fates(Len(es))] : \A i \in 1..Len(bs) : FateOk(bs[i], fs[i])}

\* The player stays within MaxWalk pixels of the playfield center
InWalk(c) ==
    /\ c[1] - Center[1] <= MaxWalk /\ Center[1] - c[1] <= MaxWalk
    /\ c[2] - Center[2] <= MaxWalk /\ Center[2] - c[2] <= MaxWalk

\* One frame of Game.run: the events evs, the pointer at mouse, the keys
\* held, and touch: the player overlaps an enemy after the updates
Frame(evs, mouse, keys, touch) ==
    /\ pc = "playing"
    /\ reached_level \in PlayedLevels
    /\ LET ev == RunEventLoop(evs, player, bullets, mouse) IN
       IF ev.quit THEN EndGame
       ELSE \E fs \in FateSeqs(ev.bullets, enemies) :
              LET p1 == PlayerUpdate(ev.player, keys)
                  bu == BulletsUpdate(ev.bullets, fs, enemies, p1.damage)
                  eu == EnemiesUpdate(bu.enemies, p1)
                  p2 == IF PlayerTouched(touch, eu.enemies)
                        THEN TakeDamage(eu.player, reached_level, tier)
                        ELSE eu.player
              IN /\ InWalk(p1.center)
                 /\ IF eu.enemies = <<>>
                    THEN /\ reached_level \in ClearedLevels
                         /\ NewLevel(p2)
                    ELSE /\ player' = p2
                         /\ bullets' = bu.bullets
                         /\ enemies' = eu.enemies
                         /\ pc' = AfterFrame(p2)
                         /\ new_rooms' = 0
                         /\ activations' = 0
                         /\ room_cleared' = FALSE
                         /\ restarted' = FALSE
                         /\ UNCHANGED <<queue, reached_level, tier, bullet_speed,
                                        can_upgrade, upgrade_rects>>

\* An event arrives while draw_upgrade_rects is drawing (pygame.time.delay)
Post(e) ==
    /\ pc = "upgrade_draw"
    /\ Len(queue) < MaxQueue
    /\ queue' = Append(queue, e)
    /\ UNCHANGED <<pc, reached_level, tier, bullet_speed, player, bullets, enemies,
                   can_upgrade, upgrade_rects, new_rooms, activations,
                   room_cleared, restarted>>

\* Game.draw_upgrade_rects: it ends with pygame.event.clear()
DrawUpgradeRects ==
    /\ pc = "upgrade_draw"
    /\ queue' = <<>>
    /\ pc' = "upgrade"
    /\ new_rooms' = 0
    /\ activations' = 0
    /\ room_cleared' = FALSE
    /\ restarted' = FALSE
    /\ UNCHANGED <<reached_level, tier, bullet_speed, player, bullets, enemies,
                   can_upgrade, upgrade_rects>>

\* One iteration of while self.can_upgrade of Game.upgrade; when the loop
\* ends, new_level returns into the frame of Game.run, which ends with the
\* health test
UpgradePoll(evs) ==
    /\ pc = "upgrade"
    /\ LET st == UpgradeEventLoop(evs, upgrade_rects,
                    [quit |-> FALSE, player |-> player, bullet_speed |-> bullet_speed,
                     can_upgrade |-> can_upgrade, activations |-> 0])
       IN IF st.quit THEN EndGame
          ELSE /\ player' = st.player
               /\ bullet_speed' = st.bullet_speed
               /\ can_upgrade' = st.can_upgrade
               /\ activations' = st.activations
               /\ new_rooms' = 0
               /\ room_cleared' = FALSE
               /\ restarted' = FALSE
               /\ IF st.can_upgrade
                  THEN UNCHANGED <<pc, upgrade_rects>>
                  ELSE /\ pc' = AfterFrame(st.player)
                       /\ upgrade_rects' = <<>>
               /\ UNCHANGED <<queue, reached_level, tier, bullets, enemies>>

\* No countdown of the player is further than InputWindow frames from its
\* start: the frames in which the session is fed clicks, keys and contacts
Quiet(p) ==
    /\ p.is_immune /\ p.immunity_timer > 0
          => p.immunity_timer >= p.immunity_duration - InputWindow
    /\ p.shoot_cooldown > 0
          => p.shoot_cooldown >= p.shoot_cooldown_set - InputWindow

\* The inputs of a frame: everything in a quiet frame, otherwise at most quits
FrameBatches == IF Quiet(player) THEN Batches(RunEvents) ELSE Batches({Quit})
FrameKeys == IF Quiet(player) THEN KeySets ELSE {{}}
FrameTouch == IF Quiet(player) THEN BOOLEAN ELSE {FALSE}
FrameMouse(evs) ==
    IF \E i \in 1..Len(evs) : evs[i].type = "MOUSEBUTTONDOWN" /\ evs[i].button = MOUSE_LEFT_BUTTON
    THEN {Center, <<10, 10>>}
    ELSE {<<10, 10>>}

StartStep == \E evs \in Batches(StartEvents) : Start(evs) /\ UNCHANGED room
FrameStep ==
    \E evs \in FrameBatches, keys \in FrameKeys, touch \in FrameTouch :
       \E mouse \in FrameMouse(evs) : Frame(evs, mouse, keys, touch) /\ UNCHANGED room
PostStep == \E e \in UpgradeEvents : Post(e) /\ UNCHANGED room
UpgradeStep == \E evs \in Batches(UpgradeEvents) : UpgradePoll(evs) /\ UNCHANGED room

Next ==
    \/ StartStep
    \/ FrameStep
    \/ PostStep
    \/ DrawUpgradeRects /\ UNCHANGED room
    \/ UpgradeStep

Spec == Init /\ [][Next]_vars

-----------------------------------------------------------------------------
(* Sessions in progress: the boss rooms of levels 3 and 7 *)

\* The tier while playing the given level: new_level has run once per
\* earlier level
RECURSIVE TierAt(_)
TierAt(level) ==
    IF level = 0 THEN InitialTier ELSE TierBump(TierAt(level - 1), level - 1)

\* A player who reaches level 3 having chosen increase_damage(2) at each of
\* the three checkpoints, and killed 1, 1 and 2 enemies on the way
PlayerAtLevel3 ==
    AddPoints(IncreaseDamage(IncreaseDamage(IncreaseDamage(NewPlayer, 2), 2), 2),
              3 * ROOM_POINTS + 4 * ENEMY_POINTS)

\* The same player at level 7, having further chosen
\* decrease_shoot_cooldown(2), increase_speed(2), increase_health(3) and
\* increase_bullet_speed(3), and killed 1, 3, 3 and 4 more enemies
PlayerAtLevel7 ==
    AddPoints(IncreaseHealth(IncreaseSpeed(DecreaseShootCooldown(PlayerAtLevel3, 2), 2), 3),
              4 * ROOM_POINTS + 11 * ENEMY_POINTS)

\* A frame boundary early in the boss room of level 3 or 7, the player
\* having lost health in the rooms before
LateStart ==
    /\ pc = "playing"
    /\ queue = <<>>
    /\ can_upgrade = FALSE
    /\ upgrade_rects = <<>>
    /\ new_rooms = 0
    /\ activations = 0
    /\ room_cleared = FALSE
    /\ restarted = FALSE
    /\ room = NoRoom
    /\ bullets = <<>>
    /\ reached_level \in {3, 7}
    /\ tier = TierAt(reached_level)
    /\ enemies \in NewEnemies(reached_level, tier)
    /\ bullet_speed = IF reached_level = 3 THEN DEFAULT_BULLET_SPEED
                      ELSE IncreaseBulletSpeed(DEFAULT_BULLET_SPEED, 3)
    /\ \E h \in 1..INITIAL_HEALTH :
          player = [(IF reached_level = 3 THEN PlayerAtLevel3 ELSE PlayerAtLevel7)
                      EXCEPT !.current_health = h]

InitLate == Init \/ LateStart

SpecLate == InitLate /\ [][Next]_vars

-----------------------------------------------------------------------------
(* Direct calls of the Player's health methods *)

\* A player under test, in a room of any played level
InitCalls ==
    /\ pc = "calls"
    /\ queue = <<>>
    /\ can_upgrade = FALSE
    /\ upgrade_rects = <<>>
    /\ new_rooms = 0
    /\ activations = 0
    /\ room_cleared = FALSE
    /\ restarted = FALSE
    /\ room = NoRoom
    /\ bullets = <<>>
    /\ bullet_speed = DEFAULT_BULLET_SPEED
    /\ reached_level \in PlayedLevels
    /\ tier = TierAt(reached_level)
    /\ enemies \in NewEnemies(reached_level, tier)
    /\ player = NewPlayer

\* The arguments of the direct calls
CallArgs == {0, 1, 2, 5, MaxArg}

CallPlayer(p) ==
    /\ pc = "calls"
    /\ player' = p
    /\ UNCHANGED <<pc, queue, reached_level, tier, bullet_speed, bullets, enemies,
                   can_upgrade, upgrade_rects, new_rooms, activations,
                   room_cleared, restarted, room>>

CallTakeDamage ==
    /\ player.current_health + HealthFloor > 0
    /\ CallPlayer(TakeDamage(player, reached_level, tier))
CallHeal == \E n \in CallArgs : ~player.is_immune /\ CallPlayer(Heal(player, n))
CallIncreaseHealth ==
    \E n \in CallArgs : ~player.is_immune /\ CallPlayer(IncreaseHealth(player, n))
CallSetMaxHealth ==
    \E n \in CallArgs : ~player.is_immune /\ CallPlayer(SetMaxHealth(player, n))
CallSetCurrentHealth ==
    \E n \in CallArgs : ~player.is_immune /\ CallPlayer(SetCurrentHealth(player, n))
CallUpdate == player.is_immune /\ CallPlayer(PlayerUpdate(player, {}))

NextCalls ==
    \/ CallTakeDamage
    \/ CallHeal
    \/ CallIncreaseHealth
    \/ CallSetMaxHealth
    \/ CallSetCurrentHealth
    \/ CallUpdate

SpecCalls == InitCalls /\ [][NextCalls]_vars

-----------------------------------------------------------------------------
(* The enemy tier over a long run of room clears *)

\* The tier at the start of a session, before any room is cleared
InitTier ==
    /\ pc = "tier"
    /\ queue = <<>>
    /\ can_upgrade = FALSE
    /\ upgrade_rects = <<>>
    /\ new_rooms = 0
    /\ activations = 0
    /\ room_cleared = FALSE
    /\ restarted = FALSE
    /\ room = NoRoom
    /\ bullets = <<>>
    /\ enemies = <<>>
    /\ bullet_speed = DEFAULT_BULLET_SPEED
    /\ reached_level = DEFAULT_ROOM_LEVEL
    /\ tier = InitialTier
    /\ player = NewPlayer

\* Game.new_level: the stat bump and the level increment of one room clear
ClearTier ==
    /\ pc = "tier"
    /\ reached_level < MaxTierLevel
    /\ tier' = TierBump(tier, reached_level)
    /\ reached_level' = reached_level + 1
    /\ UNCHANGED <<pc, queue, bullet_speed, player, bullets, enemies, can_upgrade,
                   upgrade_rects, new_rooms, activations, room_cleared, restarted,
                   room>>

\* Game.setup_game: the tier and the level of a restarted session
SetupTier ==
    /\ pc = "tier"
    /\ reached_level > DEFAULT_ROOM_LEVEL
    /\ tier' = InitialTier
    /\ reached_level' = DEFAULT_ROOM_LEVEL
    /\ UNCHANGED <<pc, queue, bullet_speed, player, bullets, enemies, can_upgrade,
                   upgrade_rects, new_rooms, activations, room_cleared, restarted,
                   room>>

NextTier ==
    \/ ClearTier
    \/ SetupTier

SpecTier == InitTier /\ [][NextTier]_vars

-----------------------------------------------------------------------------
(* Room generation: Room.__init__ and Room.create_room *)

Rect(x, y, w, h) == [x |-> x, y |-> y, w |-> w, h |-> h]

\* pygame.Rect.colliderect for rectangles of positive size: the interiors
\* overlap (rectangles that only share an edge do not collide)
CollideRect(a, b) ==
    /\ a.x < b.x + b.w
    /\ b.x < a.x + a.w
    /\ a.y < b.y + b.h
    /\ b.y < a.y + a.h

\* Room.outer_walls, in the order they are added: top, bottom, left, right
OuterWalls ==
    <<Rect(0, 0, GAME_WIDTH, TILE_SIZE),
      Rect(0, GAME_HEIGHT - TILE_SIZE, GAME_WIDTH, TILE_SIZE),
      Rect(0, 0, TILE_SIZE, GAME_HEIGHT),
      Rect(GAME_WIDTH - TILE_SIZE, 0, TILE_SIZE, GAME_HEIGHT)>>

\* An enemy safe zone that covers the playfield
EnemySafeZoneWhole == Rect(0, 0, GAME_WIDTH, GAME_HEIGHT)

\* safe_zone and enemy_safe_zone of create_room
SafeZone ==
    Rect(GAME_WIDTH \div 2 - DEFAULT_SAVE_ZONE_RANGE,
         GAME_HEIGHT \div 2 - DEFAULT_SAVE_ZONE_RANGE,
         DEFAULT_SAVE_ZONE_RANGE * 2,
         DEFAULT_SAVE_ZONE_RANGE * 2)
EnemySafeZone ==
    Rect(GAME_WIDTH \div 2 - DEFAULT_SAVE_ZONE_RANGE * ENEMY_SPAWN_SAFE_MULTIPLIER,
         GAME_HEIGHT \div 2 - DEFAULT_SAVE_ZONE_RANGE * ENEMY_SPAWN_SAFE_MULTIPLIER,
         DEFAULT_SAVE_ZONE_RANGE * ENEMY_SPAWN_SAFE_MULTIPLIER * ENEMY_SPAWN_SAFE_MULTIPLIER,
         DEFAULT_SAVE_ZONE_RANGE * ENEMY_SPAWN_SAFE_MULTIPLIER * ENEMY_SPAWN_SAFE_MULTIPLIER)

\* walls_random: the values random.randint may return
WallCounts == NUMBER_OF_WALLS .. (NUMBER_OF_WALLS + WALL_VARIATION_RANGE)

\* The candidate walls create_room may draw: x, y from random.randint,
\* width and height from random.choice
WallXs == (TILE_SIZE * INNER_WALL_MARGIN) .. (GAME_WIDTH - TILE_SIZE * INNER_WALL_MULTIPLIER)
WallYs == (TILE_SIZE * INNER_WALL_MARGIN) .. (GAME_HEIGHT - TILE_SIZE * INNER_WALL_MULTIPLIER)
WallSizes == {TILE_SIZE, TILE_SIZE * 2, TILE_SIZE * 3}

\* The candidates the model draws: six that fit together, one inside the
\* safe zone, one across the right outer wall
WallSamples ==
    {r \in {Rect(200, 100, 40, 40), Rect(201, 140, 40, 40), Rect(500, 200, 40, 120),
            Rect(100, 400, 120, 80), Rect(600, 100, 80, 80), Rect(300, 520, 40, 40),
            Rect(360, 300, 40, 40), Rect(680, 500, 120, 40)} :
       r.x \in WallXs /\ r.y \in WallYs /\ r.w \in WallSizes /\ r.h \in WallSizes}

\* The test that accepts a candidate wall
ValidWallAnywhere(c, walls) == TRUE

ValidWall(c, walls) ==
    /\ ~CollideRect(c, SafeZone)
    /\ \A i \in 1..Len(walls) : ~CollideRect(c, walls[i])

\* enemies_random: the counts create_room may end up with
EnemiesRandom(level) ==
    IF IsBossLevel(level) THEN {BOSS_ROOM_ENEMY_COUNT} ELSE EnemyCounts(level)

\* The candidate enemy positions create_room may draw
EnemyXs == (TILE_SIZE * ENEMY_SPAWN_MARGIN) .. (GAME_WIDTH - TILE_SIZE * ENEMY_SPAWN_MARGIN)
EnemyYs == (TILE_SIZE * ENEMY_SPAWN_MARGIN) .. (GAME_HEIGHT - TILE_SIZE * ENEMY_SPAWN_MARGIN)

\* The positions the model draws: beside the first two sample walls, in the
\* open, inside the enemy safe zone, in the top left corner of the range
EnemySamples ==
    {at \in {<<220, 120>>, <<600, 500>>, <<400, 350>>, <<80, 80>>} :
       at[1] \in EnemyXs /\ at[2] \in EnemyYs}

\* Enemy.__init__ / BossEnemy.__init__: get_rect(center=(x, y)) of the image
EnemyRect(at, boss) ==
    LET w == IF boss THEN BossWidth ELSE EnemyWidth
        h == IF boss THEN BossHeight ELSE EnemyHeight
    IN  Rect(at[1] - (w \div 2), at[2] - (h \div 2), w, h)

\* The test that accepts a candidate enemy
ValidEnemyOffWalls(r, walls) == ~CollideRect(r, EnemySafeZone)

ValidEnemy(r, walls) ==
    /\ ~CollideRect(r, EnemySafeZone)
    /\ \A i \in 1..Len(walls) : ~CollideRect(r, walls[i])

\* Room.__init__ up to the first candidate wall of create_room
InitRoom ==
    /\ pc = "room"
    /\ queue = <<>>
    /\ can_upgrade = FALSE
    /\ upgrade_rects = <<>>
    /\ new_rooms = 1
    /\ activations = 0
    /\ room_cleared = FALSE
    /\ restarted = FALSE
    /\ bullets = <<>>
    /\ enemies = <<>>
    /\ bullet_speed = DEFAULT_BULLET_SPEED
    /\ reached_level \in PlayedLevels
    /\ tier = TierAt(reached_level)
    /\ player = NewPlayer
    /\ \E n \in WallCounts :
          room = [phase |-> "walls", walls |-> OuterWalls, walls_random |-> n,
                  enemies_random |-> 0, boss |-> FALSE, boss_spawned |-> FALSE,
                  rejected |-> 0]

\* One pass of the loop `while not valid_wall`; the pass that places the last
\* wall runs on to the draw of enemies_random and the boss test.  The field
\* rejected counts the candidates rejected so far in the running phase.
WallCandidate ==
    /\ pc = "room"
    /\ room.phase = "walls"
    /\ \E c \in WallSamples :
          IF ValidWall(c, room.walls)
          THEN LET ws == Append(room.walls, c)
               IN  IF Len(ws) - Len(OuterWalls) = room.walls_random
                   THEN \E n \in EnemiesRandom(reached_level) :
                          room' = [room EXCEPT !.walls = ws,
                                               !.phase = "enemies",
                                               !.enemies_random = n,
                                               !.rejected = 0,
                                               !.boss = IsBossLevel(reached_level)]
                   ELSE room' = [room EXCEPT !.walls = ws]
          ELSE room' = [room EXCEPT !.rejected = Min(MaxRejects, @ + 1)]
    /\ UNCHANGED <<pc, queue, reached_level, tier, bullet_speed, player, bullets,
                   enemies, can_upgrade, upgrade_rects, new_rooms, activations,
                   room_cleared, restarted>>

\* One pass of the loop `while not valid_position`; the pass that places an
\* enemy runs on through the head of the for loop (`if boss_spawned: break`)
EnemyCandidate ==
    /\ pc = "room"
    /\ room.phase = "enemies"
    /\ \E at \in EnemySamples :
          LET e == IF room.boss THEN NewBoss(reached_level) ELSE NewEnemy(tier)
              r == EnemyRect(at, room.boss)
              spawned == room.boss_spawned \/ room.boss
          IN  IF ValidEnemy(r, room.walls)
              THEN /\ enemies' = Append(enemies, [boss |-> e.boss, health |-> e.health,
                                                  rect |-> r])
                   /\ room' = [room EXCEPT
                                  !.boss_spawned = spawned,
                                  !.phase = IF Len(enemies) + 1 = room.enemies_random
                                               \/ spawned
                                            THEN "done" ELSE "enemies"]
              ELSE /\ room' = [room EXCEPT !.boss_spawned = spawned,
                                           !.rejected = Min(MaxRejects, @ + 1)]
                   /\ UNCHANGED enemies
    /\ UNCHANGED <<pc, queue, reached_level, tier, bullet_speed, player, bullets,
                   can_upgrade, upgrade_rects, new_rooms, activations,
                   room_cleared, restarted>>

NextRoom ==
    \/ WallCandidate
    \/ EnemyCandidate

SpecRoom == InitRoom /\ [][NextRoom]_vars

\* The passes of the two loops that accept their candidate
WallAccept == WallCandidate /\ room'.walls # room.walls
EnemyAccept == EnemyCandidate /\ enemies' # enemies

\* Room generation under fair random draws: a loop that has an acceptable
\* candidate at every pass does not reject for ever
SpecRoomFair == SpecRoom /\ WF_vars(WallAccept) /\ WF_vars(EnemyAccept)

-----------------------------------------------------------------------------
(* Player.update among the walls of a room *)

\* Player.__init__: get_rect(center=(x, y)) of the image
PlayerRect(p) ==
    Rect(p.center[1] - (PlayerWidth \div 2), p.center[2] - (PlayerHeight \div 2),
         PlayerWidth, PlayerHeight)

\* pygame.sprite.spritecollide(self, walls, False): the walls hit, in the
\* order of the group
SpriteCollide(r, walls) == SelectSeq(walls, LAMBDA w : CollideRect(r, w))

\* `for wall in wall_hit` after the horizontal move: every wall of the list
\* sets the edge anew
RECURSIVE ResolveX(_, _, _)
ResolveX(r, dx, wall_hit) ==
    IF wall_hit = <<>> THEN r
    ELSE LET wall == Head(wall_hit)
             r2 == IF dx > 0 THEN [r EXCEPT !.x = wall.x - r.w]
                   ELSE IF dx < 0 THEN [r EXCEPT !.x = wall.x + wall.w]
                   ELSE r
         IN  ResolveX(r2, dx, Tail(wall_hit))

\* `for wall in wall_hit` after the vertical move
RECURSIVE ResolveY(_, _, _)
ResolveY(r, dy, wall_hit) ==
    IF wall_hit = <<>> THEN r
    ELSE LET wall == Head(wall_hit)
             r2 == IF dy > 0 THEN [r EXCEPT !.y = wall.y - r.h]
                   ELSE IF dy < 0 THEN [r EXCEPT !.y = wall.y + wall.h]
                   ELSE r
         IN  ResolveY(r2, dy, Tail(wall_hit))

\* The clamp to the playfield at the end of the movement
ClampRect(r) ==
    [r EXCEPT !.x = Max(0, Min(GAME_WIDTH - r.w, r.x)),
              !.y = Max(0, Min(GAME_HEIGHT - r.h, r.y))]

\* The movement of Player.update: horizontal move and resolution, vertical
\* move and resolution, clamp
MoveRect(r, speed, keys, walls) ==
    LET dx == RawDx(keys, speed)
        dy == RawDy(keys, speed)
        diag == dx # 0 /\ dy # 0
        r1 == [r EXCEPT !.x = MovedCoord(r.x, dx, diag)]
        r2 == ResolveX(r1, dx, SpriteCollide(r1, walls))
        r3 == [r2 EXCEPT !.y = MovedCoord(r2.y, dy, diag)]
        r4 == ResolveY(r3, dy, SpriteCollide(r3, walls))
    IN  ClampRect(r4)

MovePlayerWalls(p, keys, walls) ==
    LET r == MoveRect(PlayerRect(p), p.speed, keys, walls)
    IN  [p EXCEPT !.center = <<r.x + (r.w \div 2), r.y + (r.h \div 2)>>]

\* Player.update(walls)
PlayerUpdateWalls(p, keys, walls) ==
    CooldownTick(MovePlayerWalls(ImmunityTick(p), keys, walls))

\* Finished rooms with three inner walls, each accepted by create_room
MoveRooms ==
    {OuterWalls \o ws : ws \in
        {t \in [1..NUMBER_OF_WALLS -> WallSamples] :
           \A i \in 1..NUMBER_OF_WALLS :
              ValidWall(t[i], OuterWalls \o SubSeq(t, 1, i - 1))}}

\* Where the model lets the player walk: around a point to the left of the
\* sample walls at (200, 100) and (201, 140)
MoveSite == <<180, 140>>
InStray(c) ==
    /\ c[1] - MoveSite[1] <= MaxStray /\ MoveSite[1] - c[1] <= MaxStray
    /\ c[2] - MoveSite[2] <= MaxStray /\ MoveSite[2] - c[2] <= MaxStray

\* The keys held during an update
MoveKeySets ==
    {{}, {"RIGHT"}, {"LEFT"}, {"UP"}, {"DOWN"}, {"RIGHT", "DOWN"},
     {"LEFT", "RIGHT"}, {"UP", "DOWN"}}

\* Player.speed during the walk: the initial value and the cap
MoveSpeeds == {Min(PLAYER_MAX_SPEED, INITIAL_PLAYER_SPEED), PLAYER_MAX_SPEED}

\* A player who has walked to MoveSite in a finished room
InitMove ==
    /\ pc = "move"
    /\ queue = <<>>
    /\ can_upgrade = FALSE
    /\ upgrade_rects = <<>>
    /\ new_rooms = 0
    /\ activations = 0
    /\ room_cleared = FALSE
    /\ restarted = FALSE
    /\ bullets = <<>>
    /\ enemies = <<>>
    /\ bullet_speed = DEFAULT_BULLET_SPEED
    /\ reached_level = DEFAULT_ROOM_LEVEL
    /\ tier = InitialTier
    /\ \E s \in MoveSpeeds : player = [NewPlayer EXCEPT !.center = MoveSite, !.speed = s]
    /\ \E ws \in MoveRooms :
          /\ \A i \in 1..Len(ws) : ~CollideRect(PlayerRect(player), ws[i])
          /\ room = [phase |-> "done", walls |-> ws]

\* One call of Player.update(walls) in a frame
MoveStep ==
    /\ pc = "move"
    /\ \E keys \in MoveKeySets :
          /\ player' = PlayerUpdateWalls(player, keys, room.walls)
          /\ InStray(player'.center)
    /\ UNCHANGED <<pc, queue, reached_level, tier, bullet_speed, bullets, enemies,
                   can_upgrade, upgrade_rects, new_rooms, activations,
                   room_cleared, restarted, room>>

SpecMove == InitMove /\ [][MoveStep]_vars

-----------------------------------------------------------------------------
(* The player's part of the frames of one room *)

\* One frame of Game.run as the player sees it: Player.update, then
\* take_damage if the player overlaps an enemy; the loop runs while the
\* frame before left health at 1 or more
FramePlayer ==
    /\ player.current_health >= 1
    /\ \E touch \in BOOLEAN :
          LET p1 == PlayerUpdate(player, {})
          IN  CallPlayer(IF touch THEN TakeDamage(p1, reached_level, tier) ELSE p1)

SpecFrames == InitCalls /\ [][FramePlayer]_vars

-----------------------------------------------------------------------------
(* Direct calls of the updates of a fight: shoot, Player.update,
   Game.bullets.update, Game.room.enemies.update *)

\* The rooms fought in: the first room, a room of two enemies whose
\* max-health has been raised by +0.4, and a boss room
CombatLevels == {0, 2, 3}

\* Player.damage in the fights: the initial value and the cap
CombatDamages == {1, PLAYER_MAX_DAMAGE}

InitCombat ==
    /\ pc = "combat"
    /\ queue = <<>>
    /\ can_upgrade = FALSE
    /\ upgrade_rects = <<>>
    /\ new_rooms = 0
    /\ activations = 0
    /\ room_cleared = FALSE
    /\ restarted = FALSE
    /\ room = NoRoom
    /\ bullets = <<>>
    /\ bullet_speed = DEFAULT_BULLET_SPEED
    /\ reached_level \in CombatLevels
    /\ tier = TierAt(reached_level)
    /\ enemies \in NewEnemies(reached_level, tier)
    /\ \E d \in CombatDamages : player = [NewPlayer EXCEPT !.damage = d]

\* Player.shoot, the pointer away from the player
CombatShoot ==
    /\ pc = "combat"
    /\ Len(bullets) < MaxShots
    /\ LET s == Shoot(player, bullets, <<10, 10>>)
       IN  /\ player' = s.player
           /\ bullets' = s.bullets
    /\ UNCHANGED <<pc, queue, reached_level, tier, bullet_speed, enemies,
                   can_upgrade, upgrade_rects, new_rooms, activations,
                   room_cleared, restarted, room>>

\* Player.update, no key held
CombatPlayer ==
    /\ pc = "combat"
    /\ player' = PlayerUpdate(player, {})
    /\ UNCHANGED <<pc, queue, reached_level, tier, bullet_speed, bullets, enemies,
                   can_upgrade, upgrade_rects, new_rooms, activations,
                   room_cleared, restarted, room>>

\* Game.bullets.update(walls, enemies, player); as in a frame, the enemies
\* struck dead by the call before have been through their update
CombatBullets ==
    /\ pc = "combat"
    /\ bullets # <<>>
    /\ \A i \in 1..Len(enemies) : ~EnemyIsDead(enemies[i])
    /\ \E fs \in FateSeqs(bullets, enemies) :
          LET bu == BulletsUpdate(bullets, fs, enemies, player.damage)
          IN  /\ bullets' = bu.bullets
              /\ enemies' = bu.enemies
    /\ UNCHANGED <<pc, queue, reached_level, tier, bullet_speed, player,
                   can_upgrade, upgrade_rects, new_rooms, activations,
                   room_cleared, restarted, room>>

\* Game.room.enemies.update(player, walls)
CombatEnemies ==
    /\ pc = "combat"
    /\ enemies # <<>>
    /\ LET eu == EnemiesUpdate(enemies, player)
       IN  /\ enemies' = eu.enemies
           /\ player' = eu.player
    /\ UNCHANGED <<pc, queue, reached_level, tier, bullet_speed, bullets,
                   can_upgrade, upgrade_rects, new_rooms, activations,
                   room_cleared, restarted, room>>

NextCombat ==
    \/ CombatShoot
    \/ CombatPlayer
    \/ CombatBullets
    \/ CombatEnemies

SpecCombat == InitCombat /\ [][NextCombat]_vars

-----------------------------------------------------------------------------
(* The shooting part of the frames of a session *)

\* Amounts a cooldown offer takes off the setting between two rooms
ShotCuts == {1, 7, MaxArg}

InitShots ==
    /\ pc = "shots"
    /\ queue = <<>>
    /\ can_upgrade = FALSE
    /\ upgrade_rects = <<>>
    /\ new_rooms = 0
    /\ activations = 0
    /\ room_cleared = FALSE
    /\ restarted = FALSE
    /\ room = NoRoom
    /\ bullets = <<>>
    /\ enemies = <<>>
    /\ bullet_speed = DEFAULT_BULLET_SPEED
    /\ reached_level = 0
    /\ tier = InitialTier
    /\ player = NewPlayer

\* The event loop, Player.update and Game.bullets.update of one frame of
\* Game.run, no key held and no enemy in reach
ShotsFrame ==
    /\ pc = "shots"
    /\ \E evs \in Batches(RunEvents), mouse \in {Center, <<10, 10>>} :
          LET ev == RunEventLoop(evs, player, bullets, mouse) IN
          IF ev.quit THEN EndGame /\ UNCHANGED room
          ELSE \E fs \in FateSeqs(ev.bullets, <<>>) :
                 /\ player' = PlayerUpdate(ev.player, {})
                 /\ bullets' = BulletsUpdate(ev.bullets, fs, <<>>, player.damage).bullets
                 /\ UNCHANGED <<pc, queue, reached_level, tier, bullet_speed, enemies,
                                can_upgrade, upgrade_rects, new_rooms, activations,
                                room_cleared, restarted, room>>

\* Player.decrease_shoot_cooldown, called by an activated offer
ShotsUpgrade ==
    /\ pc = "shots"
    /\ \E n \in ShotCuts : player' = DecreaseShootCooldown(player, n)
    /\ player' # player
    /\ UNCHANGED <<pc, queue, reached_level, tier, bullet_speed, bullets, enemies,
                   can_upgrade, upgrade_rects, new_rooms, activations,
                   room_cleared, restarted, room>>

NextShots == ShotsFrame \/ ShotsUpgrade

SpecShots == InitShots /\ [][NextShots]_vars

-----------------------------------------------------------------------------
(* Bullets, enemies and contacts in the frames of one room *)

\* A spritecollide that still sees the enemies the update pass has removed
TouchedWithDead(touching, es) == touching # {}

\* pygame.sprite.spritecollide(player, room.enemies) after the enemy update
\* pass: touching are the enemies (numbered as before the pass, es their
\* state after the bullets) whose rect overlaps the player's; the group
\* holds only those the pass has left in it
Touched(touching, es) == \E i \in touching : ~EnemyIsDead(es[i])

\* The update passes and the collision test of one frame of Game.run
ContactOutcome(evs, fs, touching) ==
    LET ev == RunEventLoop(evs, player, bullets, <<10, 10>>)
        p1 == PlayerUpdate(ev.player, {})
        bu == BulletsUpdate(ev.bullets, fs, enemies, p1.damage)
        eu == EnemiesUpdate(bu.enemies, p1)
    IN  [quit |-> ev.quit,
         struck |-> bu.enemies,
         bullets |-> bu.bullets,
         enemies |-> eu.enemies,
         player |-> IF Touched(touching, bu.enemies)
                    THEN TakeDamage(eu.player, reached_level, tier)
                    ELSE eu.player]

\* The enemies that may overlap the player in a frame
ContactSets == IF Quiet(player) THEN SUBSET (1..Len(enemies)) ELSE {{}}

\* The bullet fates of a frame fed with the events evs
ContactFates(evs) ==
    FateSeqs(RunEventLoop(evs, player, bullets, <<10, 10>>).bullets, enemies)

InitContact ==
    /\ pc = "contact"
    /\ queue = <<>>
    /\ can_upgrade = FALSE
    /\ upgrade_rects = <<>>
    /\ new_rooms = 0
    /\ activations = 0
    /\ room_cleared = FALSE
    /\ restarted = FALSE
    /\ room = NoRoom
    /\ bullets = <<>>
    /\ bullet_speed = DEFAULT_BULLET_SPEED
    /\ reached_level \in CombatLevels
    /\ tier = TierAt(reached_level)
    /\ enemies \in NewEnemies(reached_level, tier)
    /\ \E d \in CombatDamages : player = [NewPlayer EXCEPT !.damage = d]

\* One frame of Game.run up to the tests that end the room or the session
ContactFrame ==
    /\ pc = "contact"
    /\ \E evs \in FrameBatches, touching \in ContactSets :
          \E fs \in ContactFates(evs) :
             LET out == ContactOutcome(evs, fs, touching) IN
             IF out.quit THEN EndGame /\ UNCHANGED room
             ELSE /\ player' = out.player
                  /\ bullets' = out.bullets
                  /\ enemies' = out.enemies
                  /\ pc' = IF out.enemies = <<>> THEN "cleared"
                           ELSE IF IsDead(out.player) THEN "dead" ELSE "contact"
                  /\ UNCHANGED <<queue, reached_level, tier, bullet_speed,
                                 can_upgrade, upgrade_rects, new_rooms, activations,
                                 room_cleared, restarted, room>>

SpecContact == InitContact /\ [][ContactFrame]_vars

-----------------------------------------------------------------------------
(* The rooms of a session, level after level *)

InitLevels ==
    /\ pc = "levels"
    /\ queue = <<>>
    /\ can_upgrade = FALSE
    /\ upgrade_rects = <<>>
    /\ new_rooms = 1
    /\ activations = 0
    /\ room_cleared = FALSE
    /\ restarted = FALSE
    /\ room = NoRoom
    /\ \E s \in SetupGame :
          /\ bullet_speed = s.bullet_speed
          /\ tier = s.tier
          /\ reached_level = s.reached_level
          /\ player = s.player
          /\ bullets = s.bullets
          /\ enemies = s.enemies

\* A frame of Game.run in which the player, not immune, overlaps an enemy:
\* take_damage and the health test
LevelsDamage ==
    /\ pc = "levels"
    /\ ~player.is_immune
    /\ player' = TakeDamage(PlayerUpdate(player, {}), reached_level, tier)
    /\ pc' = IF IsDead(player') THEN "levels_dead" ELSE "levels"
    /\ new_rooms' = 0
    /\ room_cleared' = FALSE
    /\ restarted' = FALSE
    /\ UNCHANGED <<queue, reached_level, tier, bullet_speed, bullets, enemies,
                   can_upgrade, upgrade_rects, activations, room>>

\* A frame of Game.run in which nothing but Player.update acts
LevelsUpdate ==
    /\ pc = "levels"
    /\ player.is_immune
    /\ player' = PlayerUpdate(player, {})
    /\ new_rooms' = 0
    /\ room_cleared' = FALSE
    /\ restarted' = FALSE
    /\ UNCHANGED <<pc, queue, reached_level, tier, bullet_speed, bullets, enemies,
                   can_upgrade, upgrade_rects, activations, room>>

\* The frame in which the last enemy of the room dies: Game.new_level
LevelsClear ==
    /\ pc = "levels"
    /\ reached_level < MaxRoomLevel
    /\ LET lvl == reached_level + 1
           t2 == TierBump(tier, reached_level)
       IN  /\ tier' = t2
           /\ reached_level' = lvl
           /\ enemies' \in NewEnemies(lvl, t2)
           /\ bullets' = <<>>
           /\ player' = [ResetLocation(AddPoints(
                              AddPoints(PlayerUpdate(player, {}), ENEMY_POINTS * Len(enemies)),
                              ROOM_POINTS))
                            EXCEPT !.immunity_timer = 0]
    /\ new_rooms' = 1
    /\ room_cleared' = TRUE
    /\ restarted' = FALSE
    /\ UNCHANGED <<pc, queue, bullet_speed, can_upgrade, upgrade_rects,
                   activations, room>>

\* SPACE on the game-over screen: Game.setup_game
LevelsSetup ==
    /\ pc = "levels_dead"
    /\ pc' = "levels"
    /\ \E s \in SetupGame :
          /\ bullet_speed' = s.bullet_speed
          /\ tier' = s.tier
          /\ reached_level' = s.reached_level
          /\ player' = s.player
          /\ bullets' = s.bullets
          /\ enemies' = s.enemies
    /\ new_rooms' = 1
    /\ room_cleared' = FALSE
    /\ restarted' = TRUE
    /\ UNCHANGED <<queue, can_upgrade, upgrade_rects, activations, room>>

NextLevels ==
    \/ LevelsDamage
    \/ LevelsUpdate
    \/ LevelsClear
    \/ LevelsSetup

SpecLevels == InitLevels /\ [][NextLevels]_vars

-----------------------------------------------------------------------------
(* Offer generation at every level *)

\* The pause at the end of the room of some level, before the offers exist
InitOffers ==
    /\ pc = "offers"
    /\ queue = <<>>
    /\ can_upgrade = TRUE
    /\ upgrade_rects = <<>>
    /\ new_rooms = 0
    /\ activations = 0
    /\ room_cleared = FALSE
    /\ restarted = FALSE
    /\ room = NoRoom
    /\ bullets = <<>>
    /\ bullet_speed = DEFAULT_BULLET_SPEED
    /\ reached_level \in 0..MaxOfferLevel
    /\ tier = TierAt(reached_level)
    /\ enemies \in NewEnemies(reached_level, tier)
    /\ player = NewPlayer

\* self.upgrade_rects = self.get_upgrade_rects()
OffersDraw ==
    /\ pc = "offers"
    /\ upgrade_rects = <<>>
    /\ upgrade_rects' \in GetUpgradeRects(reached_level)
    /\ UNCHANGED <<pc, queue, reached_level, tier, bullet_speed, player, bullets,
                   enemies, can_upgrade, new_rooms, activations, room_cleared,
                   restarted, room>>

SpecOffers == InitOffers /\ [][OffersDraw]_vars

-----------------------------------------------------------------------------
(* Enemy.update among the walls of a room *)

\* Unit directions (in tenths) the re-plan may come to for an enemy up and
\* left of the player, who stands at the playfield center: the direction to
\* the player, about (0.72, 0.69), plus at most 0.5 on each axis, normalised
EnemyDirections == {<<8, 6>>, <<6, 8>>}

\* move_timer after a re-plan: values random.randint may return
EnemyTimers == {ENEMY_MOVEMENT_CHANGE_MIN, ENEMY_MOVEMENT_CHANGE_MAX}

\* The head of Enemy.update: velocity (hundredths of a pixel per frame) and
\* timer after the re-plan or the countdown
EnemyPlans(e) ==
    IF e.move_timer <= 0
    THEN {[e EXCEPT !.dx = d[1] * e.speed, !.dy = d[2] * e.speed, !.move_timer = t] :
            d \in EnemyDirections, t \in EnemyTimers}
    ELSE {[e EXCEPT !.move_timer = @ - 1]}

\* rect.x += self.dx: the Rect keeps int(x + dx), which for the positive
\* coordinates of the playfield is the sum rounded down
EnemyShiftX(e) == [e EXCEPT !.rect.x = @ + ((100 * @ + e.dx) \div 100) - @]
EnemyShiftY(e) == [e EXCEPT !.rect.y = @ + ((100 * @ + e.dy) \div 100) - @]

\* `for wall in wall_hit` after the horizontal move: every wall of the list
\* sets the edge by the sign dx has by then, and reverses dx
RECURSIVE EnemyResolveX(_, _)
EnemyResolveX(e, wall_hit) ==
    IF wall_hit = <<>> THEN e
    ELSE LET wall == Head(wall_hit)
             x2 == IF e.dx > 0 THEN wall.x - e.rect.w
                   ELSE IF e.dx < 0 THEN wall.x + wall.w
                   ELSE e.rect.x
         IN  EnemyResolveX([e EXCEPT !.rect.x = x2, !.dx = 0 - @], Tail(wall_hit))

\* `for wall in wall_hit` after the vertical move
RECURSIVE EnemyResolveY(_, _)
EnemyResolveY(e, wall_hit) ==
    IF wall_hit = <<>> THEN e
    ELSE LET wall == Head(wall_hit)
             y2 == IF e.dy > 0 THEN wall.y - e.rect.h
                   ELSE IF e.dy < 0 THEN wall.y + wall.h
                   ELSE e.rect.y
         IN  EnemyResolveY([e EXCEPT !.rect.y = y2, !.dy = 0 - @], Tail(wall_hit))

\* The horizontal and then the vertical part of the movement, from the
\* velocity the head of the update has set
EnemyMoveX(e, walls) ==
    LET e1 == EnemyShiftX(e) IN EnemyResolveX(e1, SpriteCollide(e1.rect, walls))
EnemyMoveY(e, walls) ==
    LET e1 == EnemyShiftY(e) IN EnemyResolveY(e1, SpriteCollide(e1.rect, walls))

\* Enemy.update up to the death test: the enemies it may lead to
EnemyMoves(e, walls) == {EnemyMoveY(EnemyMoveX(e1, walls), walls) : e1 \in EnemyPlans(e)}

\* Where the enemy is spawned, and the rooms it is spawned in: the sample
\* walls at (200, 100) and (201, 140) are among the three inner walls
EnemySites == {<<180, 140>>, <<181, 140>>}
EnemyMoveRooms ==
    {ws \in MoveRooms : \E i, j \in 1..Len(ws) :
                           ws[i] = Rect(200, 100, 40, 40) /\ ws[j] = Rect(201, 140, 40, 40)}

\* The levels of the rooms: enemy speed 1.5 and 2.7
EnemyMoveLevels == {0, 6}

\* A room at its start, with one of its enemies spawned at a site
InitEnemyMove ==
    /\ pc = "enemy_move"
    /\ queue = <<>>
    /\ can_upgrade = FALSE
    /\ upgrade_rects = <<>>
    /\ new_rooms = 0
    /\ activations = 0
    /\ room_cleared = FALSE
    /\ restarted = FALSE
    /\ bullets = <<>>
    /\ bullet_speed = DEFAULT_BULLET_SPEED
    /\ reached_level \in EnemyMoveLevels
    /\ tier = TierAt(reached_level)
    /\ player = NewPlayer
    /\ \E ws \in EnemyMoveRooms : room = [phase |-> "done", walls |-> ws]
    /\ \E at \in EnemySites :
          /\ ValidEnemy(EnemyRect(at, FALSE), room.walls)
          /\ enemies = <<[boss |-> FALSE, health |-> NewEnemy(tier).health,
                           rect |-> EnemyRect(at, FALSE), speed |-> tier.speed,
                           dx |-> 0, dy |-> 0, move_timer |-> 0]>>

\* Game.room.enemies.update(player, walls) for the enemy of the room
EnemyStep ==
    /\ pc = "enemy_move"
    /\ enemies # <<>>
    /\ \E e \in EnemyMoves(enemies[1], room.walls) :
          /\ InStray(<<e.rect.x + (e.rect.w \div 2), e.rect.y + (e.rect.h \div 2)>>)
          /\ LET eu == EnemiesUpdate(<<e>>, player)
             IN  /\ enemies' = eu.enemies
                 /\ player' = eu.player
    /\ UNCHANGED <<pc, queue, reached_level, tier, bullet_speed, bullets,
                   can_upgrade, upgrade_rects, new_rooms, activations,
                   room_cleared, restarted, room>>

SpecEnemyMove == InitEnemyMove /\ [][EnemyStep]_vars

-----------------------------------------------------------------------------
(* Direct calls of the Player's upgrade methods *)

CallIncreaseDamage == \E n \in CallArgs : CallPlayer(IncreaseDamage(player, n))
CallIncreaseSpeed == \E n \in CallArgs : CallPlayer(IncreaseSpeed(player, n))
CallDecreaseShootCooldown ==
    \E n \in CallArgs : CallPlayer(DecreaseShootCooldown(player, n))

NextUpgrades ==
    \/ CallIncreaseDamage
    \/ CallIncreaseSpeed
    \/ CallDecreaseShootCooldown

SpecUpgrades == InitCalls /\ [][NextUpgrades]_vars

-----------------------------------------------------------------------------
(* Properties *)

\* The session is paused at an upgrade checkpoint
InPause == pc \in {"upgrade_draw", "upgrade"}

\* C1: at each upgrade checkpoint exactly one offer is applied, exactly once,
\* before play resumes, whatever the polls return: the step of Game.upgrade
\* that ends the pause has made exactly one Upgrade.activate call.
C1_OneOfferApplied ==
    [][pc = "upgrade" /\ pc' \in {"playing", "dead"} => activations' = 1]_vars

\* C2: no quit event is ever discarded without terminating: a quit event
\* waiting in the event queue is still waiting after the step, unless the
\* step terminates the process.
C2_QuitNeverDiscarded ==
    [][(\E i \in 1..Len(queue) : queue[i] = Quit)
          => pc' = "terminated" \/ (\E j \in 1..Len(queue') : queue'[j] = Quit)]_vars

\* C3: a frame of Game.run that finds the enemy collection empty after the
\* update pass raises reached_level by exactly 1, constructs exactly one Room
\* and leaves the player at the playfield center; a frame that finds an enemy
\* left keeps reached_level, constructs no Room, keeps the room's enemies and
\* leaves the player where the movement of the frame put it.
C3_ClearAdvancesOnce ==
    [][pc = "playing" /\ pc' # "terminated"
          => IF room_cleared'
             THEN /\ reached_level' = reached_level + 1
                  /\ new_rooms' = 1
                  /\ player'.center = Center
             ELSE /\ reached_level' = reached_level
                  /\ new_rooms' = 0
                  /\ enemies' # <<>>
                  /\ Len(enemies') <= Len(enemies)
                  /\ \E keys \in KeySets :
                        player'.center = MovePlayer(player, keys).center]_vars

C3_Witness ==
    /\ room_cleared
    /\ reached_level = 1
    /\ new_rooms = 1
    /\ player.center = Center
    /\ player.is_immune

\* The state the claim C4 names as the initial one
InitialState ==
    /\ reached_level = 0
    /\ tier = [max_health |-> 30, speed |-> 15, damage |-> 10]
    /\ bullet_speed = 7
    /\ player.current_health = 3
    /\ player.max_health = 3
    /\ player.damage = 1
    /\ player.speed = 3
    /\ player.shoot_cooldown_set = 20
    /\ player.shoot_cooldown = 0
    /\ player.earned_points = 0
    /\ ~player.is_immune
    /\ player.center = Center
    /\ bullets = <<>>
    /\ new_rooms = 1
    /\ enemies # <<>>
    /\ \A i \in 1..Len(enemies) : enemies[i] = [boss |-> FALSE, health |-> 30]

\* C4: after Welcome->Playing and after Dead->Playing, whatever the previous
\* playthrough did, the state is the initial one: level 0, enemy tier
\* (3, 1.5, 1), bullet speed 7, player 3 of 3 health, damage 1, speed 3,
\* cooldown setting 20, cooldown 0, score 0, not immune, no bullets, and a
\* freshly generated room.
C4_StartResets ==
    [][(pc = "welcome" \/ pc = "dead") /\ pc' = "playing" => InitialState']_vars

C4_Witness ==
    /\ restarted
    /\ pc = "playing"
    /\ reached_level = 0
    /\ player.earned_points = 0

\* C5 (as stated): current health is never negative.
C5_HealthNeverNegative == player.current_health >= 0

\* C5 (amended): current health may be negative, but a hit lands only on
\* health of at least 1 and subtracts at most 5 (the boss damage, and the cap
\* of the enemy damage), so health is never below -4.
C5_HealthFloor ==
    player.current_health >= 1 - IntOfTenths(Max(BOSS_DAMAGE, ENEMY_MAX_DAMAGE))

C5_Witness ==
    /\ pc = "dead"
    /\ IsBossLevel(reached_level)
    /\ player.current_health = 1 - IntOfTenths(BOSS_DAMAGE)

\* C6: after any sequence of take_damage, heal, increase_health,
\* set_max_health and set_current_health calls with non-negative arguments,
\* current_health <= max_health and max_health <= 21.
C6_HealthWithinMax ==
    /\ player.current_health <= player.max_health
    /\ player.max_health <= 21

C6_Witness ==
    /\ pc = "calls"
    /\ player.max_health = 21
    /\ player.current_health = 20
    /\ player.is_immune

\* C7: at the start of every Playing frame current_health >= 1; the frame
\* that leaves health below 1 ends in Dead; and on the death screen no
\* player, bullet or enemy changes until the restart.
C7_DeadAtFirstFrameBelowOne ==
    /\ [](pc = "playing" => player.current_health >= 1)
    /\ [][pc = "playing" /\ pc' # "terminated"
            => (pc' = "dead" <=> player'.current_health < 1)]_vars
    /\ [][pc = "dead" /\ pc' # "playing"
            => UNCHANGED <<player, bullets, enemies, reached_level, tier>>]_vars

C7_Witness ==
    /\ pc = "dead"
    /\ player.current_health < 1
    /\ enemies # <<>>

\* The lists of clicks outside every offer rectangle a poll may return
OutsideClicks == Batches({MouseDown(MOUSE_LEFT_BUTTON, <<10, 10>>)})

\* C8: while the session is paused at a checkpoint, no step changes
\* reached_level, the enemy tier, the bullets, the enemies, the score or the
\* player's position; the player and the bullet speed change only in a poll
\* that observes a click on an offer, and otherwise the pause is kept; a poll
\* that returns only clicks outside every offer changes nothing.
C8_PauseHaltsUpdates ==
    /\ [][InPause /\ pc' # "terminated"
            => /\ UNCHANGED <<reached_level, tier, bullets, enemies>>
               /\ player'.earned_points = player.earned_points
               /\ player'.center = player.center
               /\ \/ pc = "upgrade" /\ activations' >= 1
                  \/ InPause' /\ UNCHANGED <<player, bullet_speed, can_upgrade>>]_vars
    /\ [][\A evs \in OutsideClicks :
            UpgradePoll(evs)
               => UNCHANGED <<pc, reached_level, tier, bullet_speed, player, bullets,
                              enemies, can_upgrade, upgrade_rects>>]_vars

C8_Witness ==
    /\ pc = "upgrade"
    /\ can_upgrade
    /\ activations = 0
    /\ upgrade_rects # <<>>
    /\ enemies # <<>>

\* C9: damage taken in the boss room of level L lowers current_health by
\* min(10, 5 * (L + 1) / 4).
C9_BossDamageScales ==
    [][pc = "playing" /\ IsBossLevel(reached_level)
          /\ player'.current_health < player.current_health
          => player.current_health - player'.current_health
                = Min(10, (5 * (reached_level + 1)) \div 4)]_vars

\* C10: when Game.new_level has regenerated the room, and when it returns
\* after the offer is chosen, the player's immune flag is false and the
\* immunity countdown is 0.
C10_ImmunityCleared ==
    room_cleared \/ activations > 0
        => ~player.is_immune /\ player.immunity_timer = 0

\* C15: Player.take_damage called while the player is immune changes
\* nothing: in every state in which the player is immune, the call returns
\* the player with the same health, immune flag and immunity countdown.
C15_ImmuneDamageNoOp ==
    player.is_immune
        => LET q == TakeDamage(player, reached_level, tier)
           IN /\ q.current_health = player.current_health
              /\ q.is_immune = player.is_immune
              /\ q.immunity_timer = player.immunity_timer
              /\ q = player

C15_Witness ==
    /\ pc = "calls"
    /\ player.is_immune
    /\ player.immunity_timer = 30
    /\ player.current_health = 2
    /\ IsBossLevel(reached_level)

\* The pointer positions a shot may be aimed at: the samples of the frames
\* and the player's own center
AimSamples == {Center, <<10, 10>>, player.center}

\* C16: Player.shoot is a no-op whenever the remaining cooldown is > 0 or
\* the pointer is exactly at the player's center: the bullet collection and
\* the cooldown keep their values; and the division by dist is reached only
\* with dist # 0.
C16_ShootNoOp ==
    \A mouse \in AimSamples :
       LET s == Shoot(player, bullets, mouse)
       IN /\ player.shoot_cooldown > 0 \/ mouse = player.center
               => /\ Len(s.bullets) = Len(bullets)
                  /\ s.bullets = bullets
                  /\ s.player.shoot_cooldown = player.shoot_cooldown
                  /\ s.player = player
          /\ Len(s.bullets) > Len(bullets) => ShootDivides(player, mouse)

C16_Witness ==
    /\ pc = "playing"
    /\ player.shoot_cooldown > 0
    /\ player.center # Center
    /\ bullets # <<>>
    /\ Shoot(player, bullets, Center).bullets = bullets

\* C17: increase_damage(n) sets the damage to min(10, damage + n) for every
\* n >= 0; damage never exceeds 10 after any sequence of upgrade calls; and
\* two calls with n = 5 from damage 1 give 10.
C17_DamageCapped ==
    /\ player.damage <= 10
    /\ \A n \in CallArgs :
          IncreaseDamage(player, n).damage
             = IF player.damage + n > 10 THEN 10 ELSE player.damage + n
    /\ IncreaseDamage(IncreaseDamage(NewPlayer, 5), 5).damage = 10

C17_Witness ==
    /\ pc = "calls"
    /\ player.damage = 10
    /\ player.speed = 5
    /\ player.shoot_cooldown_set = 18

\* C18: every upgrade checkpoint generates exactly 3 offers whose kinds are
\* pairwise distinct and all among the six functions; and so is every list
\* of three kinds the choice-and-remove loop of get_upgrade_rects may draw.
C18_ThreeDistinctOffers ==
    /\ pc \in {"upgrade_draw", "upgrade"}
          => /\ Len(upgrade_rects) = 3
             /\ \A i, j \in 1..3 :
                   i # j => upgrade_rects[i].function_name # upgrade_rects[j].function_name
             /\ \A i \in 1..3 :
                   upgrade_rects[i].function_name
                      \in {"increase_damage", "increase_health", "heal",
                           "decrease_shoot_cooldown", "increase_speed",
                           "increase_bullet_speed"}
    /\ \A tr \in AllDraws :
          /\ Len(tr) = 3
          /\ \A i, j \in 1..3 : i # j => tr[i] # tr[j]
    /\ Cardinality(AllDraws) = 120

C18_Witness ==
    /\ pc = "upgrade"
    /\ Len(upgrade_rects) = 3
    /\ upgrade_rects[1].function_name = "increase_bullet_speed"
    /\ upgrade_rects[2].function_name = "increase_damage"
    /\ upgrade_rects[3].function_name = "increase_health"

-----------------------------------------------------------------------------
\* C14: each of the three shared enemy tier stats is capped at a fixed
\* maximum: after any number of room clears speed <= 20, damage <= 5, and
\* max-health never exceeds a fixed constant bound (here the largest health
\* constant of the enemy classes, BossEnemy.MAX_HEALTH = 30).
C14_TierCapped ==
    pc = "tier" =>
        /\ tier.speed <= ENEMY_MAX_SPEED
        /\ tier.damage <= ENEMY_MAX_DAMAGE
        /\ tier.max_health <= BOSS_MAX_HEALTH

-----------------------------------------------------------------------------
\* C11: every room generated while (reached_level + 1) % 4 = 0 contains
\* exactly one enemy, that enemy is a BossEnemy, and its starting health is
\* 30 + 3 * reached_level (in tenths: ten times that), however many
\* candidate positions were rejected; until it is placed the room has no enemy.
C11_BossRoomOneBoss ==
    (pc = "room" /\ (reached_level + 1) % 4 = 0) =>
        IF room.phase = "done"
        THEN /\ Len(enemies) = 1
             /\ enemies[1].boss
             /\ enemies[1].health = 10 * (30 + 3 * reached_level)
        ELSE enemies = <<>>

C11_Witness ==
    /\ pc = "room"
    /\ reached_level = 7
    /\ room.phase = "done"
    /\ room.rejected = MaxRejects
    /\ Len(enemies) = 1
    /\ enemies[1].health = 510

\* Inner walls of the room: those placed after the four outer walls
InnerWalls == (Len(OuterWalls) + 1) .. Len(room.walls)

\* C12 (as stated): no inner wall intersects the central safe zone, and no
\* two walls of the room (inner or outer) intersect each other.
C12_NoTwoWallsIntersect ==
    pc = "room" =>
        /\ \A i \in InnerWalls : ~CollideRect(room.walls[i], SafeZone)
        /\ \A i, j \in 1..Len(room.walls) :
              i # j => ~CollideRect(room.walls[i], room.walls[j])

\* C12 (amended): no inner wall intersects the central safe zone, and no
\* inner wall intersects any other wall of the room, inner or outer.  (The
\* four outer walls overlap each other in the corners of the playfield.)
C12_InnerWallsClear ==
    pc = "room" =>
        \A i \in InnerWalls :
           /\ ~CollideRect(room.walls[i], SafeZone)
           /\ \A j \in 1..Len(room.walls) :
                 i # j => ~CollideRect(room.walls[i], room.walls[j])

C12_Witness ==
    /\ pc = "room"
    /\ room.phase = "walls"
    /\ room.rejected = MaxRejects
    /\ Len(room.walls) = Len(OuterWalls) + 5

\* The box r is clear of the enemy safe zone and of every wall of the room
ClearOfRoom(r) ==
    /\ ~CollideRect(r, EnemySafeZone)
    /\ \A j \in 1..Len(room.walls) : ~CollideRect(r, room.walls[j])

\* C13: every enemy in the enemy collection of a generated room has a
\* bounding box that intersects neither the enemy safe zone nor any wall of
\* the room, and a step of the generation adds at most one enemy, at the end
\* of the collection, and never one whose box is not clear.
C13_EnemiesPlacedClear ==
    /\ [](pc = "room" => \A i \in 1..Len(enemies) : ClearOfRoom(enemies[i].rect))
    /\ [][pc = "room" =>
             \/ enemies' = enemies
             \/ /\ Len(enemies') = Len(enemies) + 1
                /\ SubSeq(enemies', 1, Len(enemies)) = enemies
                /\ ClearOfRoom(enemies'[Len(enemies')].rect)]_vars

C13_Witness ==
    /\ pc = "room"
    /\ reached_level = 0
    /\ room.phase = "done"
    /\ room.rejected = MaxRejects
    /\ Len(enemies) = 3
    /\ Len(room.walls) = Len(OuterWalls) + 6

-----------------------------------------------------------------------------
\* C19: when the player, clear of every wall, makes a single-axis move to
\* the right (dx > 0, dy = 0) and the moved rectangle intersects a wall, the
\* update ends with the player's right edge equal to the left edge of a wall
\* it intersected, and with the player overlapping no wall: no overlap and
\* no gap.
C19_RightMoveStopsAtWall ==
    pc = "move" =>
        LET r == PlayerRect(player)
            moved == [r EXCEPT !.x = @ + player.speed]
            after == PlayerRect(PlayerUpdateWalls(player, {"RIGHT"}, room.walls))
            hit == {i \in 1..Len(room.walls) : CollideRect(moved, room.walls[i])}
        IN  ((\A i \in 1..Len(room.walls) : ~CollideRect(r, room.walls[i])) /\ hit # {})
               => /\ \E i \in hit : after.x + after.w = room.walls[i].x
                  /\ \A i \in 1..Len(room.walls) : ~CollideRect(after, room.walls[i])

-----------------------------------------------------------------------------
\* C30: on a room clear the tier bump (+0.4 max-health, +0.4 speed if speed
\* < 5 else +0.1, +0.2 damage, speed and damage up to their caps; in tenths:
\* +4, +4 or +1, +2) is applied iff reached_level before the increment is
\* odd; hence the first clear changes no tier stat and, while playing level
\* L, the enemy max-health is 3 + 0.4 * floor(L / 2).
C30_BumpOnOddLevels ==
    /\ [](pc = "tier" => tier.max_health = 30 + 4 * (reached_level \div 2))
    /\ [][(pc = "tier" /\ reached_level' = reached_level + 1) =>
             IF reached_level % 2 = 1
             THEN /\ tier'.max_health = tier.max_health + 4
                  /\ tier'.speed = Min(200, tier.speed + (IF tier.speed < 50 THEN 4 ELSE 1))
                  /\ tier'.damage = Min(50, tier.damage + 2)
             ELSE tier' = tier]_vars

C30_Witness ==
    /\ pc = "tier"
    /\ reached_level = 5
    /\ tier.max_health = 38
    /\ tier.speed = 23
    /\ tier.damage = 14

-----------------------------------------------------------------------------
-----------------------------------------------------------------------------
-----------------------------------------------------------------------------
\* The enemies of es whose health is above 0, and the number of the others
Healthy(es) == SelectSeq(es, LAMBDA e : e.health > 0)

\* C26: an enemy is removed from its collection (and its points awarded) in
\* an update exactly when its health is <= 0: a step that removes enemies
\* removes those of health <= 0 and no other, and awards 5 points for each.
C26_RemovedIffNoHealth ==
    [][(pc = "combat" /\ Len(enemies') < Len(enemies)) =>
          /\ enemies' = Healthy(enemies)
          /\ player'.earned_points =
                player.earned_points + 5 * (Len(enemies) - Len(Healthy(enemies)))]_vars

\* The points the claim awards for the dead among es: 100 for a boss, 5 for
\* a normal enemy
RECURSIVE PointsDue(_)
PointsDue(es) ==
    IF es = <<>> THEN 0
    ELSE (IF ~EnemyIsDead(Head(es)) THEN 0 ELSE IF Head(es).boss THEN 100 ELSE 5)
         + PointsDue(Tail(es))

\* C27: defeating a BossEnemy awards the boss point value of 100 to the
\* player's score (normal enemies award 5).
C27_BossAwards100 ==
    [][(pc = "combat" /\ Len(enemies') < Len(enemies)) =>
          player'.earned_points = player.earned_points + PointsDue(enemies)]_vars

\* C28: a bullet that collides with a wall in a tick is destroyed without
\* damaging any enemy in that tick, even when it also overlaps an enemy.
C28_WallHitSparesEnemies ==
    pc = "combat" =>
        \A i \in 1..Len(bullets) : \A f \in Fates(Len(enemies)) :
           f.wall =>
              LET u == BulletUpdate(bullets[i], f, enemies, player.damage)
              IN  ~u.alive /\ u.enemies = enemies

\* The health the enemies es lose on the way to es2
RECURSIVE HealthLost(_, _)
HealthLost(es, es2) ==
    IF es = <<>> THEN 0
    ELSE (Head(es).health - Head(es2).health) + HealthLost(Tail(es), Tail(es2))

\* C29: a bullet reduces the health of at most one enemy, by exactly the
\* player's current damage, and leaves the bullet collection in the tick in
\* which it strikes, even when it overlaps several enemies: a tick with a
\* non-empty hit list strikes the first enemy of the list, no other, and
\* kills the bullet; a tick with an empty list strikes none; and the health
\* the enemies lose in one bullets.update is the player's damage for each
\* of at most as many strikes as bullets left the collection.
C29_OneStrikePerBullet ==
    /\ [](pc = "combat" =>
            \A i \in 1..Len(bullets) : \A f \in Fates(Len(enemies)) :
               LET u == BulletUpdate(bullets[i], f, enemies, player.damage)
               IN  IF f.hits = <<>> THEN u.enemies = enemies
                   ELSE /\ ~u.alive
                        /\ u.enemies = [enemies EXCEPT
                                          ![f.hits[1]].health = @ - 10 * player.damage])
    /\ [][(pc = "combat" /\ Len(bullets') <= Len(bullets)
                          /\ Len(enemies') = Len(enemies)) =>
             \E k \in 0..(Len(bullets) - Len(bullets')) :
                HealthLost(enemies, enemies') = k * 10 * player.damage]_vars

C29_Witness ==
    /\ pc = "combat"
    /\ reached_level = 2
    /\ bullets = <<>>
    /\ Len(enemies) = 2
    /\ enemies[1].health = 14
    /\ enemies[2].health = 24
    /\ player.damage = 1

-----------------------------------------------------------------------------
\* The four pairs of one x-key and one y-key
DiagonalKeys == {{kx, ky} : kx \in {"LEFT", "RIGHT"}, ky \in {"UP", "DOWN"}}

\* C21: for every diagonal movement input (one x-key and one y-key held, no
\* wall hit), the magnitude of the player's resulting displacement equals
\* the magnitude of the displacement of a single-axis move at the same
\* speed, in all four diagonal directions (compared as squares).
C21_DiagonalMagnitude ==
    pc = "move" =>
        \A keys \in DiagonalKeys :
           LET r == PlayerRect(player)
               d == MoveRect(r, player.speed, keys, room.walls)
               a == MoveRect(r, player.speed, {"RIGHT"}, <<>>)
           IN  d = MoveRect(r, player.speed, keys, <<>>)
                  => (d.x - r.x) * (d.x - r.x) + (d.y - r.y) * (d.y - r.y)
                        = (a.x - r.x) * (a.x - r.x) + (a.y - r.y) * (a.y - r.y)

\* The box r overlaps no wall of the room
ClearOfWalls(r) == \A i \in 1..Len(room.walls) : ~CollideRect(r, room.walls[i])

\* C22: if the player's rectangle intersects no wall before Player.update,
\* it intersects no wall after it, for every combination of held keys.
C22_UpdateKeepsClear ==
    pc = "move" =>
        (ClearOfWalls(PlayerRect(player)) =>
            \A keys \in SUBSET Keys :
               ClearOfWalls(PlayerRect(PlayerUpdateWalls(player, keys, room.walls))))

-----------------------------------------------------------------------------
Sign(n) == IF n > 0 THEN 1 ELSE IF n < 0 THEN 0 - 1 ELSE 0

\* C23: in Enemy.update, whenever the enemy's x-move (resp. y-move)
\* intersects one or more walls, the enemy's dx (resp. dy) after the update
\* has the opposite sign to its value before the move, whatever the number
\* of walls hit in that move.
C23_BounceReverses ==
    pc = "enemy_move" =>
        \A i \in 1..Len(enemies) : \A e \in EnemyPlans(enemies[i]) :
           LET ex == EnemyMoveX(e, room.walls)
               ey == EnemyMoveY(ex, room.walls)
           IN  /\ SpriteCollide(EnemyShiftX(e).rect, room.walls) # <<>>
                     => Sign(ey.dx) = 0 - Sign(e.dx)
               /\ SpriteCollide(EnemyShiftY(ex).rect, room.walls) # <<>>
                     => Sign(ey.dy) = 0 - Sign(ex.dy)

-----------------------------------------------------------------------------
\* C35: when two opposing directional keys of the same axis are held
\* together in one poll (left and right, or up and down), they cancel: the
\* player's raw displacement on that axis for that update is 0.
C35_OpposingKeysCancel ==
    pc = "move" =>
        \A keys \in MoveKeySets :
           /\ {"LEFT", "RIGHT"} \subseteq keys => RawDx(keys, player.speed) = 0
           /\ {"UP", "DOWN"} \subseteq keys => RawDy(keys, player.speed) = 0

-----------------------------------------------------------------------------
\* C31: the shoot-cooldown setting is always >= 1, and after a successful
\* shot in frame t with setting N no bullet is spawned before frame t+N; at
\* most one bullet is spawned per frame even when one event poll returns
\* several left clicks.  Stated frame by frame: whatever the poll returns,
\* the event loop spawns at most one bullet, none while the countdown is
\* above 0, and the frame of a shot ends with the countdown at N - 1; a
\* frame that starts with the countdown above 0 lowers it by exactly one.
\* So the frames t+1 .. t+N-1 start at N-1, .., 1 and spawn nothing.
C31_CooldownBetweenShots ==
    /\ [](pc = "shots" =>
            /\ player.shoot_cooldown_set >= MIN_SHOOT_COOLDOWN
            /\ MIN_SHOOT_COOLDOWN >= 1
            /\ player.shoot_cooldown >= 0
            /\ \A evs \in Batches(RunEvents), mouse \in {Center, <<10, 10>>} :
                  LET ev == RunEventLoop(evs, player, bullets, mouse) IN
                  /\ Len(ev.bullets) <= Len(bullets) + 1
                  /\ SubSeq(ev.bullets, 1, Len(bullets)) = bullets
                  /\ player.shoot_cooldown > 0 => ev.bullets = bullets
                  /\ ev.bullets # bullets =>
                        PlayerUpdate(ev.player, {}).shoot_cooldown
                           = player.shoot_cooldown_set - 1)
    /\ [][(pc = "shots" /\ pc' = "shots"
             /\ player'.shoot_cooldown_set = player.shoot_cooldown_set
             /\ player.shoot_cooldown > 0)
            => player'.shoot_cooldown = player.shoot_cooldown - 1]_vars

C31_Witness ==
    /\ pc = "shots"
    /\ player.shoot_cooldown_set = INITIAL_SHOOT_COOLDOWN - 1
    /\ player.shoot_cooldown = 1
    /\ bullets = <<>>

-----------------------------------------------------------------------------
\* C32: an enemy whose health has been brought to the death threshold by a
\* bullet never damages the player: within the frame it is removed by the
\* enemy update pass before the player-enemy collision check runs.  In every
\* frame in which each enemy overlapping the player has been struck dead by
\* the bullets, the struck enemies are gone from the group and the player's
\* health is what it was.
C32_DeadEnemyHarmless ==
    pc = "contact" =>
        \A evs \in FrameBatches, touching \in SUBSET (1..Len(enemies)) :
           \A fs \in ContactFates(evs) :
              LET out == ContactOutcome(evs, fs, touching)
                  dead == {i \in 1..Len(enemies) : EnemyIsDead(out.struck[i])}
              IN  /\ Len(out.enemies) = Len(enemies) - Cardinality(dead)
                  /\ \A k \in 1..Len(out.enemies) : ~EnemyIsDead(out.enemies[k])
                  /\ (touching # {} /\ touching \subseteq dead)
                        => out.player.current_health = player.current_health

C32_Witness ==
    /\ pc = "contact"
    /\ reached_level = 2
    /\ Len(enemies) = 1
    /\ player.earned_points = 5
    /\ player.current_health = INITIAL_HEALTH
    /\ ~player.is_immune

-----------------------------------------------------------------------------
\* C33: while playing, the current room's enemies are boss variants iff
\* (reached_level + 1) % 4 = 0, so the boss-room test made by
\* Player.take_damage always agrees with the kind of enemy actually present;
\* reached_level never changes between a room's generation and its
\* clearing: a step that changes it generates the room of the new level.
C33_BossTestAgrees ==
    /\ [](pc = "levels" =>
            /\ enemies # <<>>
            /\ \A i \in 1..Len(enemies) :
                  /\ enemies[i].boss <=> (reached_level + 1) % 4 = 0
                  /\ DamageTaken(reached_level, tier)
                        = IF enemies[i].boss THEN IntOfTenths(BossGetDamage)
                          ELSE IntOfTenths(EnemyGetDamage(tier)))
    /\ [][(pc = "levels" /\ reached_level' # reached_level)
            => /\ new_rooms' = 1
               /\ room_cleared'
               /\ \A i \in 1..Len(enemies') :
                     enemies'[i].boss <=> (reached_level' + 1) % 4 = 0]_vars

C33_Witness ==
    /\ pc = "levels"
    /\ reached_level = 7
    /\ Len(enemies) = 1
    /\ enemies[1].boss
    /\ player.current_health < INITIAL_HEALTH

-----------------------------------------------------------------------------
\* C34: for every reached_level >= 0 and every effect kind, offer
\* generation raises no error and the offer's magnitude is an integer >= 1
\* lying in [lower, upper] of that kind's formula, where upper is replaced
\* by lower + 1 whenever lower >= upper.
C34_OfferMagnitudes ==
    pc = "offers" =>
        /\ GetUpgradeRects(reached_level) # {}
        /\ \A k \in 1..Len(Functions) :
              LET lower == Lower(Functions[k], reached_level)
                  upper == Upper(Functions[k], reached_level)
                  top == IF lower >= upper THEN lower + 1 ELSE upper
              IN  /\ BalancedRandint(lower, upper) # {}
                  /\ \A n \in BalancedRandint(lower, upper) :
                        n \in Int /\ n >= 1 /\ lower <= n /\ n <= top
                  /\ \A n \in lower..top : n \in BalancedRandint(lower, upper)
        /\ upgrade_rects # <<>> =>
              /\ Len(upgrade_rects) = 3
              /\ \A i \in 1..3 :
                    LET u == upgrade_rects[i]
                        lower == Lower(u.function_name, reached_level)
                        upper == Upper(u.function_name, reached_level)
                    IN  /\ u.function_number >= 1
                        /\ u.function_number >= lower
                        /\ u.function_number
                              <= (IF lower >= upper THEN lower + 1 ELSE upper)

C34_Witness ==
    /\ pc = "offers"
    /\ reached_level = 6
    /\ upgrade_rects # <<>>
    /\ \E i \in 1..3 :
          /\ upgrade_rects[i].function_name = "increase_bullet_speed"
          /\ upgrade_rects[i].function_number = 4

-----------------------------------------------------------------------------
\* C36: a boss's speed at construction equals
\* min(20, 1 + (1/3) * current enemy tier speed); e.g. with the initial tier
\* speed 1.5 the boss speed is 1.5.  Both sides are taken three times over,
\* in tenths, for the boss of the room.
C36_BossSpeedFormula ==
    (pc = "levels" /\ \E i \in 1..Len(enemies) : enemies[i].boss)
        => 3 * BossGetSpeed(tier) = Min(3 * BOSS_MAX_SPEED, 3 * BOSS_SPEED + tier.speed)

-----------------------------------------------------------------------------
\* C37: from the Welcome or Dead state the session moves to Playing only on
\* a SPACE key-down event; every other key or mouse event leaves the state
\* unchanged, and the only other exit from these states is the quit signal.
C37_SpaceStarts ==
    /\ [](pc \in {"welcome", "dead"} =>
            \A evs \in Batches(StartEvents) :
               LET r == StartEventLoop(evs)
                   spaces == {i \in 1..Len(evs) : evs[i] = KeyDown("SPACE")}
                   quits == {i \in 1..Len(evs) : evs[i].type = "QUIT"}
               IN  /\ r = "run" => spaces # {}
                   /\ r = "quit" => quits # {}
                   /\ (spaces = {} /\ quits = {}) => r = "wait"
                   /\ r \in {"run", "quit", "wait"})
    /\ [][(pc = "welcome" \/ pc = "dead") =>
             \/ pc' = "playing"
             \/ pc' = "terminated"
             \/ /\ pc' = pc
                /\ UNCHANGED <<queue, reached_level, tier, bullet_speed, player,
                               bullets, enemies, can_upgrade, upgrade_rects, room>>]_vars

C37_Witness ==
    /\ pc = "playing"
    /\ restarted
    /\ new_rooms = 1
    /\ bullets = <<>>
    /\ ~player.is_immune

-----------------------------------------------------------------------------
====
